--------------------------- MODULE Configuration ---------------------------
(***************************************************************************)
(* What an operation does before it installs: it reads the configuration    *)
(* (Metadata), fetches the charts (ChartFetch) and writes them to its       *)
(* temporary directory (ChartFiles).  The goroutines of one FetchCharts meet *)
(* in variables, those of several operations in the file system, which are  *)
(* behaviours of their own.                                                 *)
(***************************************************************************)
EXTENDS Metadata, ChartFiles

\* No configuration is read, so nothing is fetched.
FilesOnly == world = None /\ pc = "idle"

ConfigurationInit ==
    /\ \/ Init
       \/ world = None /\ config = Failed /\ NoCalls /\ Idle
    /\ FilesInit

ConfigurationNext ==
    \/ Step /\ UNCHANGED filesVars
    \/ FilesOnly /\ FilesNext /\ UNCHANGED vars

ConfigurationSpec ==
    ConfigurationInit /\ [][ConfigurationNext]_<<vars, filesVars>> /\ Fairness
=============================================================================
