------------------------- MODULE EventStatus_proofs -------------------------
(* The status document of an event is never lost, and never goes back, for   *)
(* any set of charts.                                                        *)
EXTENDS EventStatus, TLAPS

\* A goroutine of an image or of a chart has been started.
Active == \E n \in Nodes : image[n] # "idle" \/ chart[n] # "idle"

\* The tree is the one of the operation's own configuration, or it is empty.
TreeReady == doc = Null \/ DOMAIN doc.tree = Nodes
TreeEmpty == doc = Null \/ DOMAIN doc.tree = {}

\* The steps before the status is set up, before the tree is, and before the
\* installation.
Fresh     == {"idle", "getenv", "generate", "new", "config", "unknown"}
Limiting  == {"limitNew", "limitConfig", "limitEnd"}
Preparing == {"commit", "charts", "limit", "install"}

\* The goroutines of the nodes start after everything that sets up a document.
Order ==
    /\ caller \in {"received", "lock"} => op = "idle"
    /\ op \in Limiting => limited
    /\ op \in Fresh \cup Limiting \cup Preparing \cup {"started", "unknownEnd"} => ~Active

\* Unless the global limit intervenes, they find the tree with their nodes.
TreeInTime ==
    ~limited =>
        /\ op \in Fresh => TreeEmpty
        /\ op \in Preparing \cup {"walk"} => TreeReady
        /\ op = "started" /\ kind # "delete" => TreeReady
        /\ Active => TreeReady
        /\ TreeEmpty \/ TreeReady

\* What the tree shows as over is over.
TreeTrue ==
    ~limited /\ doc # Null =>
        \A n \in DOMAIN doc.tree :
            /\ image[n] \in {"idle", "begin", "building"} =>
                  doc.tree[n].image \notin {"built", "failed"}
            /\ chart[n] \in {"idle", "asking", "helm"} =>
                  doc.tree[n].chart \notin {"done", "failed"}

\* TypeOK in two parts: the operation, and all the rest
OpTypes ==
    /\ op \in OpSteps \cup {"idle", "ended"}
    /\ failed \in BOOLEAN /\ extant \in BOOLEAN /\ limited \in BOOLEAN

OtherTypes ==
    /\ doc \in Document \cup {Null}
    /\ kind \in {"create", "update", "delete"} /\ webhook \in BOOLEAN
    /\ caller \in {"received", "lock", "select", "fail", "leave", "returned"}
    /\ watcher \in {"off", "watching", "preempting"}
    /\ preempted \in BOOLEAN /\ cancelled \in BOOLEAN
    /\ image \in [Nodes -> {"idle", "begin", "building", "built", "failed"}]
    /\ chart \in [Nodes -> {"idle", "asking", "helm", "health", "ok", "failed"}]
    /\ seen \in {"nothing", "ok", "error", "cancelled"}

\* The inductive invariant
Inv == OpTypes /\ OtherTypes /\ Order /\ TreeInTime /\ TreeTrue

-----------------------------------------------------------------------------
(* The statements *)

LEMMA NullIsNoDocument == Null \notin Document
BY EventAssumption

LEMMA TreeType ==
    ASSUME NEW S \in {{}, Nodes, OtherNodes}, NEW t \in [S -> NodeStatus]
    PROVE  t \in Trees
BY DEF Trees

LEMMA NewTreeType ==
    ASSUME NEW S \in {{}, Nodes, OtherNodes}
    PROVE  /\ NewTree(S) \in Trees
           /\ DOMAIN NewTree(S) = S
           /\ \A n \in S : /\ NewTree(S)[n].image = "none"
                            /\ NewTree(S)[n].chart = "waiting"
<1>1. NewTree(S) \in [S -> NodeStatus]
  BY DEF NewTree, NodeStatus
<1>2. NewTree(S) \in Trees
  BY <1>1, TreeType
<1> QED BY <1>2 DEF NewTree

\* SetNewStatus makes a document with an empty tree.
LEMMA NewStatus ==
    ASSUME NEW t \in {"unknown", "create", "update", "destroy"}, SetNewStatus(t)
    PROVE  doc' \in Document /\ doc' # Null /\ DOMAIN doc'.tree = {}
<1>1. NewTree({}) \in Trees /\ DOMAIN NewTree({}) = {}
  BY NewTreeType
<1> QED BY <1>1, NullIsNoDocument DEF SetNewStatus, Document

\* The other statements about the event keep the tree as it is.
SameTree ==
    /\ doc' \in Document \cup {Null}
    /\ doc = Null <=> doc' = Null
    /\ doc # Null => doc'.tree = doc.tree

LEMMA CompletedKeepsTree ==
    ASSUME OtherTypes, NEW s \in {"done", "failed"}, SetCompletedStatus(s)
    PROVE  SameTree
BY NullIsNoDocument DEF SetCompletedStatus, Write, SameTree, OtherTypes, Document

LEMMA RenderedKeepsTree ==
    ASSUME OtherTypes, NEW s \in {"pending", "success", "failure"}, SetRenderedStatus(s)
    PROVE  SameTree
BY NullIsNoDocument DEF SetRenderedStatus, Write, SameTree, OtherTypes, Document

LEMMA UnchangedKeepsTree ==
    ASSUME OtherTypes, UNCHANGED doc
    PROVE  SameTree
BY DEF OtherTypes, SameTree

\* SetInitialStatus puts a new tree in a document.
LEMMA InitialStatus ==
    ASSUME OtherTypes, NEW S \in {Nodes, OtherNodes}, SetInitialStatus(S)
    PROVE  /\ doc' \in Document \cup {Null}
           /\ doc = Null <=> doc' = Null
           /\ doc # Null => doc'.tree = NewTree(S)
<1>1. NewTree(S) \in Trees
  BY NewTreeType
<1> QED BY <1>1, NullIsNoDocument DEF SetInitialStatus, Write, OtherTypes, Document

\* An update of a node that is there changes nothing else.
NodeTold(n) ==
    /\ doc = Null <=> doc' = Null
    /\ doc # Null =>
          /\ DOMAIN doc'.tree = DOMAIN doc.tree
          /\ \A m \in DOMAIN doc.tree \ {n} : doc'.tree[m] = doc.tree[m]

ImageIs(n, v) ==
    doc # Null => doc'.tree[n].image = v /\ doc'.tree[n].chart = doc.tree[n].chart

ChartIs(n, v) ==
    doc # Null => doc'.tree[n].chart = v /\ doc'.tree[n].image = doc.tree[n].image

LEMMA ImageTold ==
    ASSUME OtherTypes, NEW n \in Nodes, NEW v \in {"started", "built", "failed"},
           SetImage(n, v)
    PROVE  /\ doc' \in Document \cup {Null}
           /\ TreeReady => NodeTold(n) /\ ImageIs(n, v)
<1>1. CASE doc = Null
  BY <1>1 DEF SetImage, WriteNode, NodeTold, ImageIs
<1>2. CASE doc # Null /\ n \notin DOMAIN doc.tree
  BY <1>2 DEF SetImage, WriteNode, TreeReady
<1>3. CASE doc # Null /\ n \in DOMAIN doc.tree
  <2> DEFINE t == [doc.tree EXCEPT ![n].image = v]
  <2>1. doc \in Document
    BY <1>3 DEF OtherTypes
  <2>2. PICK S \in {{}, Nodes, OtherNodes} : doc.tree \in [S -> NodeStatus]
    BY <2>1 DEF Document, Trees
  <2>3. t \in [S -> NodeStatus]
    BY <2>2 DEF NodeStatus
  <2>4. t \in Trees
    BY <2>3, TreeType
  <2>5. doc' = [doc EXCEPT !.tree = t]
    BY <1>3 DEF SetImage, WriteNode
  <2>6. doc' \in Document /\ doc'.tree = t
    BY <2>1, <2>4, <2>5 DEF Document
  <2>7. /\ DOMAIN t = DOMAIN doc.tree
        /\ \A m \in DOMAIN doc.tree \ {n} : t[m] = doc.tree[m]
        /\ t[n].image = v /\ t[n].chart = doc.tree[n].chart
    BY <1>3, <2>2 DEF NodeStatus
  <2> QED BY <1>3, <2>6, <2>7, NullIsNoDocument DEF NodeTold, ImageIs
<1> QED BY <1>1, <1>2, <1>3

LEMMA ChartTold ==
    ASSUME OtherTypes, NEW n \in Nodes, NEW v \in {"working", "done", "failed"},
           SetChart(n, v)
    PROVE  /\ doc' \in Document \cup {Null}
           /\ TreeReady => NodeTold(n) /\ ChartIs(n, v)
<1>1. CASE doc = Null
  BY <1>1 DEF SetChart, WriteNode, NodeTold, ChartIs
<1>2. CASE doc # Null /\ n \notin DOMAIN doc.tree
  BY <1>2 DEF SetChart, WriteNode, TreeReady
<1>3. CASE doc # Null /\ n \in DOMAIN doc.tree
  <2> DEFINE t == [doc.tree EXCEPT ![n].chart = v]
  <2>1. doc \in Document
    BY <1>3 DEF OtherTypes
  <2>2. PICK S \in {{}, Nodes, OtherNodes} : doc.tree \in [S -> NodeStatus]
    BY <2>1 DEF Document, Trees
  <2>3. t \in [S -> NodeStatus]
    BY <2>2 DEF NodeStatus
  <2>4. t \in Trees
    BY <2>3, TreeType
  <2>5. doc' = [doc EXCEPT !.tree = t]
    BY <1>3 DEF SetChart, WriteNode
  <2>6. doc' \in Document /\ doc'.tree = t
    BY <2>1, <2>4, <2>5 DEF Document
  <2>7. /\ DOMAIN t = DOMAIN doc.tree
        /\ \A m \in DOMAIN doc.tree \ {n} : t[m] = doc.tree[m]
        /\ t[n].chart = v /\ t[n].image = doc.tree[n].image
    BY <1>3, <2>2 DEF NodeStatus
  <2> QED BY <1>3, <2>6, <2>7, NullIsNoDocument DEF NodeTold, ChartIs
<1> QED BY <1>1, <1>2, <1>3

-----------------------------------------------------------------------------
(* The steps *)

\* What NeverErased and ProgressKept ask of a step.
Kept ==
    ~limited' =>
        /\ doc # Null => doc' # Null
        /\ doc # Null /\ doc' # Null =>
              \A n \in DOMAIN doc.tree :
                /\ n \in DOMAIN doc'.tree
                /\ doc.tree[n].image \in {"built", "failed"} =>
                      doc'.tree[n].image = doc.tree[n].image
                /\ doc.tree[n].chart \in {"done", "failed"} =>
                      doc'.tree[n].chart = doc.tree[n].chart

\* A step that keeps the tree and leaves the nodes alone changes nothing that
\* the invariant says of them.
LEMMA Steady ==
    ASSUME Inv, SameTree, UNCHANGED nodeVars, UNCHANGED limited
    PROVE  /\ Active' <=> Active
           /\ TreeReady' <=> TreeReady
           /\ TreeEmpty' <=> TreeEmpty
           /\ TreeTrue'
           /\ Kept
<1>1. Active' <=> Active
  BY DEF nodeVars, Active
<1>2. (TreeReady' <=> TreeReady) /\ (TreeEmpty' <=> TreeEmpty)
  BY DEF SameTree, TreeReady, TreeEmpty
<1>3. TreeTrue'
  BY DEF Inv, SameTree, nodeVars, TreeTrue
<1>4. Kept
  BY DEF SameTree, Kept
<1> QED BY <1>1, <1>2, <1>3, <1>4

\* A new status, while the tree is empty and no node works.
LEMMA Renewed ==
    ASSUME Inv, NEW t \in {"unknown", "create", "update", "destroy"},
           SetNewStatus(t), limited \/ TreeEmpty, UNCHANGED nodeVars,
           UNCHANGED limited
    PROVE  /\ doc' \in Document
           /\ Active' <=> Active
           /\ TreeEmpty' /\ TreeTrue' /\ Kept
<1>1. doc' \in Document /\ doc' # Null /\ DOMAIN doc'.tree = {}
  BY NewStatus
<1>2. Active' <=> Active
  BY DEF nodeVars, Active
<1>3. TreeEmpty' /\ TreeTrue' /\ Kept
  BY <1>1 DEF TreeEmpty, TreeTrue, Kept
<1> QED BY <1>1, <1>2, <1>3

\* The steps around the operation: the webhook handler, lockingOperation and
\* its goroutine.
LEMMA InvCaller ==
    ASSUME Inv, CallerStep \/ WatcherStep \/ Preempt \/ Timeout
    PROVE  Inv' /\ Kept
<1>1. CASE Receive
  <2>1. op = "idle" /\ (limited \/ TreeEmpty) /\ UNCHANGED nodeVars /\ UNCHANGED limited
    BY <1>1 DEF Receive, Inv, Order, TreeInTime, Fresh, opVars
  <2>2. CASE webhook
    <3>1. SetNewStatus("unknown")
      BY <1>1, <2>2 DEF Receive
    <3>2. OpTypes' /\ OtherTypes'
      <4>1. OpTypes'
        BY <1>1, <2>1, <3>1, Renewed DEF Receive, Inv, OpTypes, OpSteps, opVars
      <4>2. OtherTypes'
        BY <1>1, <2>1, <3>1, Renewed DEF Receive, Inv, OtherTypes, opVars, nodeVars
      <4> QED BY <4>1, <4>2
    <3>3. Order' /\ TreeInTime'
      BY <1>1, <2>1, <3>1, Renewed DEF Receive, Inv, Order, TreeInTime, Fresh, Limiting,
         Preparing, opVars
    <3> QED BY <2>1, <3>1, <3>2, <3>3, Renewed DEF Inv
  <2>3. CASE ~webhook
    <3>1. SameTree
      BY <1>1, <2>3, UnchangedKeepsTree DEF Receive, Inv
    <3>2. OpTypes' /\ OtherTypes'
      <4>1. OpTypes'
        BY <1>1, <2>1, <2>3, <3>1 DEF Receive, Inv, OpTypes, OpSteps, opVars
      <4>2. OtherTypes'
        BY <1>1, <2>1, <2>3, <3>1 DEF Receive, Inv, OtherTypes, opVars, nodeVars
      <4> QED BY <4>1, <4>2
    <3>3. Order' /\ TreeInTime'
      BY <1>1, <2>1, <3>1, Steady DEF Receive, Inv, Order, TreeInTime, Fresh, Limiting,
         Preparing, opVars
    <3> QED BY <2>1, <3>1, <3>2, <3>3, Steady DEF Inv
  <2> QED BY <2>2, <2>3
<1>2. CASE Locked
  <2>1. SameTree /\ UNCHANGED nodeVars /\ UNCHANGED limited
    BY <1>2, UnchangedKeepsTree DEF Inv, Locked, nodeVars
  <2>2. OpTypes' /\ OtherTypes'
    <3>1. OpTypes'
      BY <1>2, <2>1 DEF Inv, OpTypes, OpSteps, Locked
    <3>2. OtherTypes'
      BY <1>2, <2>1 DEF Inv, OtherTypes, SameTree, nodeVars, Locked
    <3> QED BY <3>1, <3>2
  <2>3. Order' /\ TreeInTime'
    BY <1>2, <2>1, Steady DEF Inv, OpTypes, Order, TreeInTime, Fresh, Limiting,
       Preparing, Locked, nodeVars
  <2> QED BY <2>1, <2>2, <2>3, Steady DEF Inv
<1>3. CASE Select
  <2>1. SameTree /\ UNCHANGED nodeVars /\ UNCHANGED limited
    BY <1>3, UnchangedKeepsTree DEF Inv, Select, opVars, nodeVars
  <2>2. OpTypes' /\ OtherTypes'
    <3>1. OpTypes'
      BY <1>3, <2>1 DEF Inv, OpTypes, OpSteps, Select, opVars
    <3>2. OtherTypes'
      BY <1>3, <2>1 DEF Inv, OtherTypes, SameTree, nodeVars, Select, opVars
    <3> QED BY <3>1, <3>2
  <2>3. Order' /\ TreeInTime'
    BY <1>3, <2>1, Steady DEF Inv, OpTypes, Order, TreeInTime, Fresh, Limiting,
       Preparing, Select, opVars, nodeVars
  <2> QED BY <2>1, <2>2, <2>3, Steady DEF Inv
<1>4. CASE Fail
  <2>1. SameTree /\ UNCHANGED nodeVars /\ UNCHANGED limited
    BY <1>4, CompletedKeepsTree DEF Inv, Fail, SetFailedStatus, opVars, nodeVars
  <2>2. OpTypes' /\ OtherTypes'
    <3>1. OpTypes'
      BY <1>4, <2>1 DEF Inv, OpTypes, OpSteps, Fail, SetFailedStatus, opVars
    <3>2. OtherTypes'
      BY <1>4, <2>1 DEF Inv, OtherTypes, SameTree, nodeVars, Fail, SetFailedStatus,
         opVars
    <3> QED BY <3>1, <3>2
  <2>3. Order' /\ TreeInTime'
    BY <1>4, <2>1, Steady DEF Inv, OpTypes, Order, TreeInTime, Fresh, Limiting,
       Preparing, Fail, SetFailedStatus, opVars, nodeVars
  <2> QED BY <2>1, <2>2, <2>3, Steady DEF Inv
<1>5. CASE Leave
  <2>1. SameTree /\ UNCHANGED nodeVars /\ UNCHANGED limited
    BY <1>5, UnchangedKeepsTree DEF Inv, Leave, opVars, nodeVars
  <2>2. OpTypes' /\ OtherTypes'
    <3>1. OpTypes'
      BY <1>5, <2>1 DEF Inv, OpTypes, OpSteps, Leave, opVars
    <3>2. OtherTypes'
      BY <1>5, <2>1 DEF Inv, OtherTypes, SameTree, nodeVars, Leave, opVars
    <3> QED BY <3>1, <3>2
  <2>3. Order' /\ TreeInTime'
    BY <1>5, <2>1, Steady DEF Inv, OpTypes, Order, TreeInTime, Fresh, Limiting,
       Preparing, Leave, opVars, nodeVars
  <2> QED BY <2>1, <2>2, <2>3, Steady DEF Inv
<1>6. CASE Preempt
  <2>1. SameTree /\ UNCHANGED nodeVars /\ UNCHANGED limited
    BY <1>6, UnchangedKeepsTree DEF Inv, Preempt, opVars, nodeVars
  <2>2. OpTypes' /\ OtherTypes'
    <3>1. OpTypes'
      BY <1>6, <2>1 DEF Inv, OpTypes, OpSteps, Preempt, opVars
    <3>2. OtherTypes'
      BY <1>6, <2>1 DEF Inv, OtherTypes, SameTree, nodeVars, Preempt, opVars
    <3> QED BY <3>1, <3>2
  <2>3. Order' /\ TreeInTime'
    BY <1>6, <2>1, Steady DEF Inv, OpTypes, Order, TreeInTime, Fresh, Limiting,
       Preparing, Preempt, opVars, nodeVars
  <2> QED BY <2>1, <2>2, <2>3, Steady DEF Inv
<1>7. CASE Timeout
  <2>1. SameTree /\ UNCHANGED nodeVars /\ UNCHANGED limited
    BY <1>7, UnchangedKeepsTree DEF Inv, Timeout, opVars, nodeVars
  <2>2. OpTypes' /\ OtherTypes'
    <3>1. OpTypes'
      BY <1>7, <2>1 DEF Inv, OpTypes, OpSteps, Timeout, opVars
    <3>2. OtherTypes'
      BY <1>7, <2>1 DEF Inv, OtherTypes, SameTree, nodeVars, Timeout, opVars
    <3> QED BY <3>1, <3>2
  <2>3. Order' /\ TreeInTime'
    BY <1>7, <2>1, Steady DEF Inv, OpTypes, Order, TreeInTime, Fresh, Limiting,
       Preparing, Timeout, opVars, nodeVars
  <2> QED BY <2>1, <2>2, <2>3, Steady DEF Inv
<1>8. CASE WatcherMarks
  <2>1. SameTree /\ UNCHANGED nodeVars /\ UNCHANGED limited
    BY <1>8, CompletedKeepsTree DEF Inv, WatcherMarks, opVars, nodeVars
  <2>2. OpTypes' /\ OtherTypes'
    <3>1. OpTypes'
      BY <1>8, <2>1 DEF Inv, OpTypes, OpSteps, WatcherMarks, opVars
    <3>2. OtherTypes'
      BY <1>8, <2>1 DEF Inv, OtherTypes, SameTree, nodeVars, WatcherMarks, opVars
    <3> QED BY <3>1, <3>2
  <2>3. Order' /\ TreeInTime'
    BY <1>8, <2>1, Steady DEF Inv, OpTypes, Order, TreeInTime, Fresh, Limiting,
       Preparing, WatcherMarks, opVars, nodeVars
  <2> QED BY <2>1, <2>2, <2>3, Steady DEF Inv
<1>9. CASE WatcherCancels
  <2>1. SameTree /\ UNCHANGED nodeVars /\ UNCHANGED limited
    BY <1>9, UnchangedKeepsTree DEF Inv, WatcherCancels, opVars, nodeVars
  <2>2. OpTypes' /\ OtherTypes'
    <3>1. OpTypes'
      BY <1>9, <2>1 DEF Inv, OpTypes, OpSteps, WatcherCancels, opVars
    <3>2. OtherTypes'
      BY <1>9, <2>1 DEF Inv, OtherTypes, SameTree, nodeVars, WatcherCancels, opVars
    <3> QED BY <3>1, <3>2
  <2>3. Order' /\ TreeInTime'
    BY <1>9, <2>1, Steady DEF Inv, OpTypes, Order, TreeInTime, Fresh, Limiting,
       Preparing, WatcherCancels, opVars, nodeVars
  <2> QED BY <2>1, <2>2, <2>3, Steady DEF Inv
<1> QED BY <1>1, <1>2, <1>3, <1>4, <1>5, <1>6, <1>7, <1>8, <1>9 DEF CallerStep,
   WatcherStep

\* The steps of the operation
LEMMA InvOp ==
    ASSUME Inv, OpStep
    PROVE  Inv' /\ Kept
<1>1. CASE GetEnv
  <2>1. SameTree /\ UNCHANGED nodeVars /\ UNCHANGED limited
    BY <1>1, UnchangedKeepsTree, CompletedKeepsTree DEF Inv, GetEnv, At, Goto,
       Continue, Error, Frame, lockVars, nodeVars
  <2>2. OpTypes' /\ OtherTypes'
    <3>1. OpTypes'
      BY <1>1, <2>1 DEF Inv, OpTypes, OpSteps, GetEnv, At, Goto, Continue, Error, Frame
    <3>2. OtherTypes'
      BY <1>1, <2>1 DEF Inv, OtherTypes, SameTree, nodeVars, GetEnv, At, Goto,
         Continue, Error, Frame, lockVars
    <3> QED BY <3>1, <3>2
  <2>3. Order' /\ TreeInTime'
    BY <1>1, <2>1, Steady DEF Inv, OpTypes, Order, TreeInTime, Fresh, Limiting,
       Preparing, GetEnv, At, Goto, Continue, Error, Frame, lockVars, nodeVars
  <2> QED BY <2>1, <2>2, <2>3, Steady DEF Inv
<1>2. CASE Generate
  <2>1. SameTree /\ UNCHANGED nodeVars /\ UNCHANGED limited
    BY <1>2, UnchangedKeepsTree DEF Inv, Generate, At, Goto, Continue, Error, Frame,
       lockVars, nodeVars
  <2>2. OpTypes' /\ OtherTypes'
    <3>1. OpTypes'
      BY <1>2, <2>1 DEF Inv, OpTypes, OpSteps, Generate, At, Goto, Continue, Error,
         Frame
    <3>2. OtherTypes'
      BY <1>2, <2>1 DEF Inv, OtherTypes, SameTree, nodeVars, Generate, At, Goto,
         Continue, Error, Frame, lockVars
    <3> QED BY <3>1, <3>2
  <2>3. Order' /\ TreeInTime'
    BY <1>2, <2>1, Steady DEF Inv, OpTypes, Order, TreeInTime, Fresh, Limiting,
       Preparing, Generate, At, Goto, Continue, Error, Frame, lockVars, nodeVars
  <2> QED BY <2>1, <2>2, <2>3, Steady DEF Inv
<1>3. CASE New
  <2>1. (limited \/ TreeEmpty) /\ UNCHANGED nodeVars /\ UNCHANGED limited
    BY <1>3 DEF Inv, New, At, Goto, Continue, Error, Frame, lockVars, nodeVars,
       TreeInTime, Order, Fresh, Limiting
  <2>2. PICK t \in {"unknown", "create", "update", "destroy"} : SetNewStatus(t)
    BY <1>3 DEF Inv, OpTypes, OtherTypes, New, At, Goto, Continue, Error, Frame,
       lockVars, nodeVars
  <2>3. OpTypes' /\ OtherTypes'
    <3>1. OpTypes'
      BY <1>3, <2>1, <2>2, Renewed DEF Inv, OpTypes, OpSteps, New, At, Goto, Continue,
         Error, Frame
    <3>2. OtherTypes'
      BY <1>3, <2>1, <2>2, Renewed DEF Inv, OtherTypes, New, At, Goto, Continue, Error,
         Frame, lockVars, nodeVars
    <3> QED BY <3>1, <3>2
  <2>4. Order' /\ TreeInTime'
    BY <1>3, <2>1, <2>2, Renewed DEF Inv, Order, TreeInTime, Fresh, Limiting,
       Preparing, New, At, Goto, Continue, Error, Frame, lockVars, nodeVars
  <2> QED BY <2>1, <2>2, <2>3, <2>4, Renewed DEF Inv
<1>4. CASE ProcessConfig
  <2>0. \/ ((kind # "delete" /\ Error) \/ (kind = "delete" /\ Continue("started"))) /\ UNCHANGED doc
        \/ SetInitialStatus(Nodes) /\ Continue("started")
    BY <1>4 DEF ProcessConfig
  <2> USE DEF ProcessConfig, At, Goto, Continue, Error, Frame, lockVars
  <2>1. CASE ((kind # "delete" /\ Error) \/ (kind = "delete" /\ Continue("started"))) /\ UNCHANGED doc
    <3>1. SameTree /\ UNCHANGED nodeVars /\ UNCHANGED limited
      BY <1>4, <2>1, UnchangedKeepsTree DEF Inv
    <3>2. OpTypes' /\ OtherTypes'
      <4>1. OpTypes'
        BY <1>4, <2>1, <3>1 DEF Inv, OpTypes, OpSteps
      <4>2. OtherTypes'
        BY <1>4, <2>1, <3>1 DEF Inv, OtherTypes, nodeVars
      <4> QED BY <4>1, <4>2
    <3>3. Order' /\ TreeInTime'
      BY <1>4, <2>1, <3>1, Steady DEF Inv, Order, TreeInTime, Fresh, Limiting, Preparing
    <3> QED BY <3>1, <3>2, <3>3, Steady DEF Inv
  <2>2. CASE SetInitialStatus(Nodes) /\ Continue("started")
    <3>1. /\ doc' \in Document \cup {Null}
          /\ doc = Null <=> doc' = Null
          /\ doc # Null => doc'.tree = NewTree(Nodes)
      BY <2>2, InitialStatus DEF Inv
    <3>2. (limited \/ TreeEmpty) /\ ~Active /\ UNCHANGED nodeVars /\ UNCHANGED limited
      BY <1>4, <2>2 DEF Inv, Order, TreeInTime, Fresh
    <3>3. TreeReady' /\ TreeTrue' /\ ~Active'
      BY <3>1, <3>2, NewTreeType DEF TreeReady, TreeTrue, Active, nodeVars
    <3>4. Kept
      BY <3>1, <3>2 DEF TreeEmpty, Kept
    <3>5. OpTypes' /\ OtherTypes'
      <4>1. OpTypes'
        BY <1>4, <2>2, <3>1 DEF Inv, OpTypes, OpSteps
      <4>2. OtherTypes'
        BY <1>4, <2>2, <3>1 DEF Inv, OtherTypes, nodeVars
      <4> QED BY <4>1, <4>2
    <3>6. Order' /\ TreeInTime'
      BY <1>4, <2>2, <3>2, <3>3 DEF Inv, Order, TreeInTime, Fresh, Limiting, Preparing
    <3> QED BY <3>3, <3>4, <3>5, <3>6 DEF Inv
  <2> QED BY <2>0, <2>1, <2>2
<1>5. CASE Started
  <2>1. SameTree /\ UNCHANGED nodeVars /\ UNCHANGED limited
    BY <1>5, UnchangedKeepsTree DEF Inv, Started, At, Goto, Continue, Error, Frame,
       lockVars, nodeVars
  <2>2. OpTypes' /\ OtherTypes'
    <3>1. OpTypes'
      BY <1>5, <2>1 DEF Inv, OpTypes, OpSteps, Started, At, Goto, Continue, Error, Frame
    <3>2. OtherTypes'
      BY <1>5, <2>1 DEF Inv, OtherTypes, SameTree, nodeVars, Started, At, Goto,
         Continue, Error, Frame, lockVars
    <3> QED BY <3>1, <3>2
  <2>3. Order' /\ TreeInTime'
    BY <1>5, <2>1, Steady DEF Inv, OpTypes, Order, TreeInTime, Fresh, Limiting,
       Preparing, Started, At, Goto, Continue, Error, Frame, lockVars, nodeVars
  <2> QED BY <2>1, <2>2, <2>3, Steady DEF Inv
<1>6. CASE Commit
  <2>1. SameTree /\ UNCHANGED nodeVars /\ UNCHANGED limited
    BY <1>6, UnchangedKeepsTree, RenderedKeepsTree DEF Inv, Commit, At, Goto, Continue,
       Error, Frame, lockVars, nodeVars
  <2>2. OpTypes' /\ OtherTypes'
    <3>1. OpTypes'
      BY <1>6, <2>1 DEF Inv, OpTypes, OpSteps, Commit, At, Goto, Continue, Error, Frame
    <3>2. OtherTypes'
      BY <1>6, <2>1 DEF Inv, OtherTypes, SameTree, nodeVars, Commit, At, Goto,
         Continue, Error, Frame, lockVars
    <3> QED BY <3>1, <3>2
  <2>3. Order' /\ TreeInTime'
    BY <1>6, <2>1, Steady DEF Inv, OpTypes, Order, TreeInTime, Fresh, Limiting,
       Preparing, Commit, At, Goto, Continue, Error, Frame, lockVars, nodeVars
  <2> QED BY <2>1, <2>2, <2>3, Steady DEF Inv
<1>7. CASE FetchCharts
  <2>1. SameTree /\ UNCHANGED nodeVars /\ UNCHANGED limited
    BY <1>7, UnchangedKeepsTree DEF Inv, FetchCharts, At, Goto, Continue, Error, Frame,
       lockVars, nodeVars
  <2>2. OpTypes' /\ OtherTypes'
    <3>1. OpTypes'
      BY <1>7, <2>1 DEF Inv, OpTypes, OpSteps, FetchCharts, At, Goto, Continue, Error,
         Frame
    <3>2. OtherTypes'
      BY <1>7, <2>1 DEF Inv, OtherTypes, SameTree, nodeVars, FetchCharts, At, Goto,
         Continue, Error, Frame, lockVars
    <3> QED BY <3>1, <3>2
  <2>3. Order' /\ TreeInTime'
    BY <1>7, <2>1, Steady DEF Inv, OpTypes, Order, TreeInTime, Fresh, Limiting,
       Preparing, FetchCharts, At, Goto, Continue, Error, Frame, lockVars, nodeVars
  <2> QED BY <2>1, <2>2, <2>3, Steady DEF Inv
<1>8. CASE Limit
  <2>1. SameTree /\ UNCHANGED nodeVars /\ (limited' = limited \/ limited')
    BY <1>8, UnchangedKeepsTree DEF Inv, Limit, At, Goto, Continue, Error, Frame
  <2>2. OpTypes' /\ OtherTypes'
    <3>1. OpTypes'
      BY <1>8, <2>1 DEF Inv, OpTypes, OpSteps, Limit, At, Goto, Continue, Error, Frame
    <3>2. OtherTypes'
      BY <1>8, <2>1 DEF Inv, OtherTypes, SameTree, Limit, At, Goto, Continue, Error,
         Frame, lockVars, nodeVars
    <3> QED BY <3>1, <3>2
  <2>3. CASE limited' = limited
    <3>1. Order' /\ TreeInTime'
      BY <1>8, <2>1, <2>3, Steady DEF Inv, OpTypes, Order, TreeInTime, Fresh, Limiting,
         Preparing,
         Limit, At, Goto, Continue, Error, Frame, lockVars
    <3> QED BY <2>1, <2>2, <2>3, <3>1, Steady DEF Inv
  <2>4. CASE limited'
    <3>1. TreeInTime' /\ TreeTrue' /\ Kept
      BY <2>4 DEF TreeInTime, TreeTrue, Kept
    <3>2. Active' <=> Active
      BY <2>1 DEF nodeVars, Active
    <3>3. Order'
      BY <1>8, <2>4, <3>2 DEF Inv, OpTypes, Order, Fresh, Limiting, Preparing, Limit,
         At, Goto,
         Continue, Error, Frame, lockVars
    <3> QED BY <2>2, <3>1, <3>3 DEF Inv
  <2> QED BY <2>1, <2>3, <2>4
<1>9. CASE LimitNew
  <2>1. limited /\ limited' /\ UNCHANGED nodeVars
    BY <1>9 DEF Inv, Order, Limiting, LimitNew, At, Goto, Continue, Error, Frame,
       lockVars, nodeVars
  <2>2. doc' \in Document \cup {Null}
    BY <1>9, NewStatus DEF Inv, OpTypes, OtherTypes, LimitNew, At, Goto, Continue,
       Error, Frame, lockVars, nodeVars
  <2>3. OpTypes' /\ OtherTypes'
    <3>1. OpTypes'
      BY <1>9, <2>2 DEF Inv, OpTypes, OpSteps, LimitNew, At, Goto, Continue, Error,
         Frame
    <3>2. OtherTypes'
      BY <1>9, <2>2 DEF Inv, OtherTypes, LimitNew, At, Goto, Continue, Error, Frame,
         lockVars, nodeVars
    <3> QED BY <3>1, <3>2
  <2>4. TreeInTime' /\ TreeTrue' /\ Kept
    BY <2>1 DEF TreeInTime, TreeTrue, Kept
  <2>5. Active' <=> Active
    BY <2>1 DEF nodeVars, Active
  <2>6. Order'
    BY <1>9, <2>1, <2>5 DEF Inv, Order, Fresh, Limiting, Preparing, LimitNew, At, Goto,
       Continue, Error, Frame, lockVars, nodeVars
  <2> QED BY <2>3, <2>4, <2>6 DEF Inv
<1>10. CASE LimitConfig
  <2>1. limited /\ limited' /\ UNCHANGED nodeVars
    BY <1>10 DEF Inv, Order, Limiting, LimitConfig, At, Goto, Continue, Error, Frame,
       lockVars, nodeVars
  <2>2. doc' \in Document \cup {Null}
    BY <1>10, InitialStatus DEF Inv, OpTypes, OtherTypes, LimitConfig, At, Goto,
       Continue, Error, Frame, lockVars, nodeVars
  <2>3. OpTypes' /\ OtherTypes'
    <3>1. OpTypes'
      BY <1>10, <2>2 DEF Inv, OpTypes, OpSteps, LimitConfig, At, Goto, Continue, Error,
         Frame
    <3>2. OtherTypes'
      BY <1>10, <2>2 DEF Inv, OtherTypes, LimitConfig, At, Goto, Continue, Error,
         Frame, lockVars, nodeVars
    <3> QED BY <3>1, <3>2
  <2>4. TreeInTime' /\ TreeTrue' /\ Kept
    BY <2>1 DEF TreeInTime, TreeTrue, Kept
  <2>5. Active' <=> Active
    BY <2>1 DEF nodeVars, Active
  <2>6. Order'
    BY <1>10, <2>1, <2>5 DEF Inv, Order, Fresh, Limiting, Preparing, LimitConfig, At,
       Goto, Continue, Error, Frame, lockVars, nodeVars
  <2> QED BY <2>3, <2>4, <2>6 DEF Inv
<1>11. CASE LimitEnd
  <2>1. SameTree /\ UNCHANGED nodeVars /\ UNCHANGED limited
    BY <1>11, CompletedKeepsTree DEF Inv, LimitEnd, At, Goto, Continue, Error, Frame,
       lockVars, nodeVars
  <2>2. OpTypes' /\ OtherTypes'
    <3>1. OpTypes'
      BY <1>11, <2>1 DEF Inv, OpTypes, OpSteps, LimitEnd, At, Goto, Continue, Error,
         Frame
    <3>2. OtherTypes'
      BY <1>11, <2>1 DEF Inv, OtherTypes, SameTree, nodeVars, LimitEnd, At, Goto,
         Continue, Error, Frame, lockVars
    <3> QED BY <3>1, <3>2
  <2>3. Order' /\ TreeInTime'
    BY <1>11, <2>1, Steady DEF Inv, OpTypes, Order, TreeInTime, Fresh, Limiting,
       Preparing, LimitEnd, At, Goto, Continue, Error, Frame, lockVars, nodeVars
  <2> QED BY <2>1, <2>2, <2>3, Steady DEF Inv
<1>12. CASE Install
  <2> USE DEF Install, At, Goto, Continue, Error, lockVars
  <2>1. SameTree /\ UNCHANGED limited /\ UNCHANGED chart
    BY <1>12, UnchangedKeepsTree DEF Inv
  <2>2. OpTypes' /\ OtherTypes'
    <3>1. OpTypes'
      BY <1>12 DEF Inv, OpTypes, OpSteps
    <3>2. OtherTypes'
      BY <1>12 DEF Inv, OtherTypes
    <3> QED BY <3>1, <3>2
  <2>3. CASE UNCHANGED image
    <3>1. Order' /\ TreeInTime'
      BY <1>12, <2>1, <2>3, Steady DEF nodeVars, Inv, Order, TreeInTime, Fresh,
         Limiting, Preparing
    <3> QED BY <2>1, <2>2, <2>3, <3>1, Steady DEF Inv, nodeVars
  <2>4. CASE Continue("walk") /\ image' = [n \in Nodes |-> IF n \in Built THEN "begin" ELSE "idle"]
    <3>1. ~limited => TreeReady /\ TreeReady'
      BY <1>12, <2>1 DEF Inv, TreeInTime, Preparing, SameTree, TreeReady
    <3>2. \A n \in Nodes : image[n] = "idle"
      BY <1>12 DEF Inv, OpTypes, Order, Preparing, Active
    <3>3. TreeTrue'
      BY <2>1, <2>4, <3>1, <3>2 DEF Inv, TreeTrue, TreeReady, SameTree
    <3>4. Kept
      BY <2>1 DEF SameTree, Kept
    <3>5. Order' /\ TreeInTime'
      BY <1>12, <2>1, <2>4, <3>1 DEF Inv, Order, TreeInTime, Fresh, Limiting, Preparing
    <3> QED BY <2>2, <3>3, <3>4, <3>5 DEF Inv
  <2> QED BY <1>12, <2>3, <2>4
<1>13. CASE WalkReturns
  <2>1. SameTree /\ UNCHANGED nodeVars /\ UNCHANGED limited
    BY <1>13, UnchangedKeepsTree DEF Inv, WalkReturns, At, Goto, Continue, Error,
       Frame, lockVars, nodeVars, Launched, Ended
  <2>2. OpTypes' /\ OtherTypes'
    <3>1. OpTypes'
      BY <1>13, <2>1 DEF Inv, OpTypes, OpSteps, WalkReturns, At, Goto, Continue, Error,
         Frame, Launched, Ended
    <3>2. OtherTypes'
      BY <1>13, <2>1 DEF Inv, OtherTypes, SameTree, nodeVars, WalkReturns, At, Goto,
         Continue, Error, Frame, lockVars, Launched, Ended
    <3> QED BY <3>1, <3>2
  <2>3. Order' /\ TreeInTime'
    BY <1>13, <2>1, Steady DEF Inv, OpTypes, Order, TreeInTime, Fresh, Limiting,
       Preparing, WalkReturns, At, Goto, Continue, Error, Frame, lockVars, nodeVars,
       Launched, Ended
  <2> QED BY <2>1, <2>2, <2>3, Steady DEF Inv
<1>14. CASE Render
  <2>1. SameTree /\ UNCHANGED nodeVars /\ UNCHANGED limited
    BY <1>14, UnchangedKeepsTree, RenderedKeepsTree DEF Inv, Render, At, Goto,
       Continue, Error, Frame, lockVars, nodeVars
  <2>2. OpTypes' /\ OtherTypes'
    <3>1. OpTypes'
      BY <1>14, <2>1 DEF Inv, OpTypes, OpSteps, Render, At, Goto, Continue, Error, Frame
    <3>2. OtherTypes'
      BY <1>14, <2>1 DEF Inv, OtherTypes, SameTree, nodeVars, Render, At, Goto,
         Continue, Error, Frame, lockVars
    <3> QED BY <3>1, <3>2
  <2>3. Order' /\ TreeInTime'
    BY <1>14, <2>1, Steady DEF Inv, OpTypes, Order, TreeInTime, Fresh, Limiting,
       Preparing, Render, At, Goto, Continue, Error, Frame, lockVars, nodeVars
  <2> QED BY <2>1, <2>2, <2>3, Steady DEF Inv
<1>15. CASE Finish
  <2>1. SameTree /\ UNCHANGED nodeVars /\ UNCHANGED limited
    BY <1>15, CompletedKeepsTree DEF Inv, Finish, At, Goto, Continue, Error, Frame,
       lockVars, nodeVars
  <2>2. OpTypes' /\ OtherTypes'
    <3>1. OpTypes'
      BY <1>15, <2>1 DEF Inv, OpTypes, OpSteps, Finish, At, Goto, Continue, Error, Frame
    <3>2. OtherTypes'
      BY <1>15, <2>1 DEF Inv, OtherTypes, SameTree, nodeVars, Finish, At, Goto,
         Continue, Error, Frame, lockVars
    <3> QED BY <3>1, <3>2
  <2>3. Order' /\ TreeInTime'
    BY <1>15, <2>1, Steady DEF Inv, OpTypes, Order, TreeInTime, Fresh, Limiting,
       Preparing, Finish, At, Goto, Continue, Error, Frame, lockVars, nodeVars
  <2> QED BY <2>1, <2>2, <2>3, Steady DEF Inv
<1>16. CASE Unknown
  <2>1. (limited \/ TreeEmpty) /\ UNCHANGED nodeVars /\ UNCHANGED limited
    BY <1>16 DEF Inv, Unknown, At, Goto, Continue, Error, Frame, lockVars, nodeVars,
       TreeInTime, Order, Fresh, Limiting
  <2>2. PICK t \in {"unknown", "create", "update", "destroy"} : SetNewStatus(t)
    BY <1>16 DEF Inv, OpTypes, OtherTypes, Unknown, At, Goto, Continue, Error, Frame,
       lockVars, nodeVars
  <2>3. OpTypes' /\ OtherTypes'
    <3>1. OpTypes'
      BY <1>16, <2>1, <2>2, Renewed DEF Inv, OpTypes, OpSteps, Unknown, At, Goto,
         Continue, Error, Frame
    <3>2. OtherTypes'
      BY <1>16, <2>1, <2>2, Renewed DEF Inv, OtherTypes, Unknown, At, Goto, Continue,
         Error, Frame, lockVars, nodeVars
    <3> QED BY <3>1, <3>2
  <2>4. Order' /\ TreeInTime'
    BY <1>16, <2>1, <2>2, Renewed DEF Inv, Order, TreeInTime, Fresh, Limiting,
       Preparing, Unknown, At, Goto, Continue, Error, Frame, lockVars, nodeVars
  <2> QED BY <2>1, <2>2, <2>3, <2>4, Renewed DEF Inv
<1>17. CASE UnknownEnd
  <2>1. SameTree /\ UNCHANGED nodeVars /\ UNCHANGED limited
    BY <1>17, CompletedKeepsTree DEF Inv, UnknownEnd, At, Goto, Continue, Error, Frame,
       lockVars, nodeVars
  <2>2. OpTypes' /\ OtherTypes'
    <3>1. OpTypes'
      BY <1>17, <2>1 DEF Inv, OpTypes, OpSteps, UnknownEnd, At, Goto, Continue, Error,
         Frame
    <3>2. OtherTypes'
      BY <1>17, <2>1 DEF Inv, OtherTypes, SameTree, nodeVars, UnknownEnd, At, Goto,
         Continue, Error, Frame, lockVars
    <3> QED BY <3>1, <3>2
  <2>3. Order' /\ TreeInTime'
    BY <1>17, <2>1, Steady DEF Inv, OpTypes, Order, TreeInTime, Fresh, Limiting,
       Preparing, UnknownEnd, At, Goto, Continue, Error, Frame, lockVars, nodeVars
  <2> QED BY <2>1, <2>2, <2>3, Steady DEF Inv
<1> QED BY <1>1, <1>2, <1>3, <1>4, <1>5, <1>6, <1>7, <1>8, <1>9, <1>10, <1>11, <1>12,
   <1>13, <1>14, <1>15, <1>16, <1>17 DEF OpStep

\* A step of a goroutine of node n tells only of n, and tells the truth.
Right(n) ==
    doc # Null /\ n \in DOMAIN doc.tree =>
        /\ image'[n] \in {"idle", "begin", "building"} =>
              doc'.tree[n].image \notin {"built", "failed"}
        /\ chart'[n] \in {"idle", "asking", "helm"} =>
              doc'.tree[n].chart \notin {"done", "failed"}
        /\ doc.tree[n].image \in {"built", "failed"} =>
              doc'.tree[n].image = doc.tree[n].image
        /\ doc.tree[n].chart \in {"done", "failed"} =>
              doc'.tree[n].chart = doc.tree[n].chart

LEMMA NodeKept ==
    ASSUME Inv, NEW n \in Nodes, limited' = limited,
           ~limited => TreeReady /\ NodeTold(n) /\ Right(n),
           \A m \in Nodes \ {n} : image'[m] = image[m] /\ chart'[m] = chart[m]
    PROVE  (~limited => TreeReady') /\ TreeTrue' /\ Kept
<1>1. ASSUME ~limited PROVE TreeReady'
  BY <1>1 DEF TreeReady, NodeTold
<1>2. ASSUME ~limited, doc # Null, NEW m \in DOMAIN doc.tree
      PROVE  /\ image'[m] \in {"idle", "begin", "building"} =>
                   doc'.tree[m].image \notin {"built", "failed"}
             /\ chart'[m] \in {"idle", "asking", "helm"} =>
                   doc'.tree[m].chart \notin {"done", "failed"}
             /\ doc.tree[m].image \in {"built", "failed"} =>
                   doc'.tree[m].image = doc.tree[m].image
             /\ doc.tree[m].chart \in {"done", "failed"} =>
                   doc'.tree[m].chart = doc.tree[m].chart
  <2>1. m \in Nodes
    BY <1>2 DEF TreeReady
  <2>2. CASE m = n
    BY <1>2, <2>2 DEF Right
  <2>3. CASE m # n
    <3>1. doc'.tree[m] = doc.tree[m] /\ image'[m] = image[m] /\ chart'[m] = chart[m]
      BY <1>2, <2>1, <2>3 DEF NodeTold
    <3>2. /\ image[m] \in {"idle", "begin", "building"} =>
                doc.tree[m].image \notin {"built", "failed"}
          /\ chart[m] \in {"idle", "asking", "helm"} =>
                doc.tree[m].chart \notin {"done", "failed"}
      BY <1>2 DEF Inv, TreeTrue
    <3> QED BY <3>1, <3>2
  <2> QED BY <2>2, <2>3
<1>3. ASSUME ~limited, doc # Null
      PROVE  doc' # Null /\ DOMAIN doc'.tree = DOMAIN doc.tree
  BY <1>3 DEF NodeTold
<1>4. ASSUME ~limited, doc = Null
      PROVE  doc' = Null
  BY <1>4 DEF NodeTold
<1>5. TreeTrue'
  BY <1>2, <1>3, <1>4 DEF TreeTrue
<1>6. Kept
  BY <1>2, <1>3 DEF Kept
<1> QED BY <1>1, <1>5, <1>6

\* Before the step, the image and the chart of n have not been told of.
LEMMA NotYetTold ==
    ASSUME Inv, ~limited, doc # Null, NEW n \in DOMAIN doc.tree
    PROVE  /\ image[n] \in {"idle", "begin", "building"} =>
                 doc.tree[n].image \notin {"built", "failed"}
           /\ chart[n] \in {"idle", "asking", "helm"} =>
                 doc.tree[n].chart \notin {"done", "failed"}
BY DEF Inv, TreeTrue

LEMMA RightImage ==
    ASSUME Inv, NEW n \in Nodes, NEW v \in {"started", "built", "failed"},
           image[n] \in {"begin", "building"},
           v \in {"built", "failed"} => image'[n] \notin {"idle", "begin", "building"},
           chart' = chart, ImageIs(n, v), ~limited
    PROVE  Right(n)
BY NotYetTold DEF ImageIs, Right

LEMMA RightChart ==
    ASSUME Inv, NEW n \in Nodes, NEW v \in {"working", "done", "failed"},
           chart[n] \in {"asking", "helm"},
           v \in {"done", "failed"} => chart'[n] \notin {"idle", "asking", "helm"},
           image' = image, ChartIs(n, v), ~limited
    PROVE  Right(n)
BY NotYetTold DEF ChartIs, Right

LEMMA RightNothing ==
    ASSUME Inv, NEW n \in Nodes, doc' = doc, image' = image, ~limited,
           chart'[n] \in {"idle", "asking", "helm"} => chart[n] \in {"idle", "asking", "helm"}
    PROVE  NodeTold(n) /\ Right(n)
BY NotYetTold DEF NodeTold, Right

\* The steps of the goroutines of a node
LEMMA InvNode ==
    ASSUME Inv, NEW n \in Nodes,
           ImageBegins(n) \/ ImageEnds(n) \/ Launch(n) \/ ChartStep(n)
    PROVE  Inv' /\ Kept
<1>1. CASE ImageBegins(n)
  <2>1. UNCHANGED limited /\ NodeFrame /\ (~limited => TreeReady)
    BY <1>1 DEF ImageBegins, NodeFrame, opVars, SetOf, Inv, Order, TreeInTime, Active
  <2> SetImage(n, "started") /\ image[n] = "begin" /\ chart' = chart
    BY <1>1 DEF ImageBegins
  <2>2. doc' \in Document \cup {Null}
    BY ImageTold DEF Inv
  <2>3. ~limited => NodeTold(n) /\ Right(n)
    <3>1. ~limited => NodeTold(n) /\ ImageIs(n, "started")
      BY <2>1, ImageTold DEF Inv
    <3> QED BY <3>1, RightImage
  <2>4. \A m \in Nodes \ {n} : image'[m] = image[m] /\ chart'[m] = chart[m]
    BY <1>1 DEF Inv, OtherTypes, ImageBegins, SetOf
  <2>5. (~limited => TreeReady') /\ TreeTrue' /\ Kept
    BY <2>1, <2>2, <2>3, <2>4, NodeKept
  <2>6. OpTypes' /\ OtherTypes'
    <3>1. OpTypes'
      BY <2>1 DEF Inv, OpTypes, NodeFrame, opVars
    <3>2. OtherTypes'
      BY <1>1, <2>2, <2>1 DEF Inv, OtherTypes, ImageBegins, NodeFrame, SetOf, lockVars
    <3> QED BY <3>1, <3>2
  <2>7. Order' /\ TreeInTime'
    BY <1>1, <2>1, <2>5 DEF Inv, Order, TreeInTime, Fresh, Limiting, Preparing, Active,
       ImageBegins, At, NodeFrame, SetOf, lockVars, opVars
  <2> QED BY <2>5, <2>6, <2>7 DEF Inv
<1>2. CASE ImageEnds(n)
  <2>1. UNCHANGED limited /\ NodeFrame /\ (~limited => TreeReady)
    BY <1>2 DEF ImageEnds, NodeFrame, opVars, SetOf, Inv, Order, TreeInTime, Active
  <2>0. PICK v \in {"built", "failed"} : image' = [image EXCEPT ![n] = v] /\ SetImage(n, v)
    BY <1>2 DEF ImageEnds
  <2> image[n] = "building" /\ chart' = chart /\ image'[n] = v
    BY <1>2, <2>0 DEF ImageEnds, Inv, OtherTypes
  <2>2. doc' \in Document \cup {Null}
    BY <2>0, ImageTold DEF Inv
  <2>3. ~limited => NodeTold(n) /\ Right(n)
    <3>1. ~limited => NodeTold(n) /\ ImageIs(n, v)
      BY <2>0, <2>1, ImageTold DEF Inv
    <3> QED BY <3>1, RightImage
  <2>4. \A m \in Nodes \ {n} : image'[m] = image[m] /\ chart'[m] = chart[m]
    BY <1>2 DEF Inv, OtherTypes, ImageEnds, SetOf
  <2>5. (~limited => TreeReady') /\ TreeTrue' /\ Kept
    BY <2>1, <2>2, <2>3, <2>4, NodeKept
  <2>6. OpTypes' /\ OtherTypes'
    <3>1. OpTypes'
      BY <2>1 DEF Inv, OpTypes, NodeFrame, opVars
    <3>2. OtherTypes'
      BY <1>2, <2>2, <2>1 DEF Inv, OtherTypes, ImageEnds, NodeFrame, SetOf, lockVars
    <3> QED BY <3>1, <3>2
  <2>7. Order' /\ TreeInTime'
    BY <1>2, <2>1, <2>5 DEF Inv, Order, TreeInTime, Fresh, Limiting, Preparing, Active,
       ImageEnds, At, NodeFrame, SetOf, lockVars, opVars
  <2> QED BY <2>5, <2>6, <2>7 DEF Inv
<1>3. CASE Launch(n)
  <2>1. UNCHANGED limited /\ NodeFrame /\ (~limited => TreeReady)
    BY <1>3 DEF Launch, NodeFrame, opVars, SetOf, Inv, Order, TreeInTime, Active, At
  <2>2. doc' \in Document \cup {Null}
    BY <1>3 DEF Inv, OtherTypes, Launch
  <2>3. ~limited => NodeTold(n) /\ Right(n)
    BY <1>3, RightNothing DEF Launch, SetOf
  <2>4. \A m \in Nodes \ {n} : image'[m] = image[m] /\ chart'[m] = chart[m]
    BY <1>3 DEF Inv, OtherTypes, Launch, SetOf
  <2>5. (~limited => TreeReady') /\ TreeTrue' /\ Kept
    BY <2>1, <2>2, <2>3, <2>4, NodeKept
  <2>6. OpTypes' /\ OtherTypes'
    <3>1. OpTypes'
      BY <2>1 DEF Inv, OpTypes, NodeFrame, opVars
    <3>2. OtherTypes'
      BY <1>3, <2>2, <2>1 DEF Inv, OtherTypes, Launch, NodeFrame, SetOf, lockVars
    <3> QED BY <3>1, <3>2
  <2>7. Order' /\ TreeInTime'
    BY <1>3, <2>1, <2>5 DEF Inv, Order, TreeInTime, Fresh, Limiting, Preparing, Active,
       Launch, At, NodeFrame, SetOf, lockVars, opVars
  <2> QED BY <2>5, <2>6, <2>7 DEF Inv
<1>4. CASE ChartStarts(n)
  <2>1. UNCHANGED limited /\ NodeFrame /\ (~limited => TreeReady)
    BY <1>4 DEF ChartStarts, NodeFrame, opVars, SetOf, Inv, Order, TreeInTime, Active
  <2>0. \/ chart[n] = "asking" /\ chart'[n] = "helm" /\ SetChart(n, "working")
        \/ chart'[n] = "failed" /\ doc' = doc
    BY <1>4 DEF ChartStarts, SetOf, Inv, OtherTypes
  <2> image' = image
    BY <1>4 DEF ChartStarts, SetOf
  <2>2. doc' \in Document \cup {Null}
    BY <2>0, ChartTold DEF Inv, OtherTypes
  <2>3. ~limited => NodeTold(n) /\ Right(n)
    <3>1. CASE chart[n] = "asking" /\ chart'[n] = "helm" /\ SetChart(n, "working")
      <4>1. ~limited => NodeTold(n) /\ ChartIs(n, "working")
        BY <2>1, <3>1, ChartTold DEF Inv
      <4> QED BY <3>1, <4>1, RightChart
    <3>2. CASE chart'[n] = "failed" /\ doc' = doc
      BY <3>2, RightNothing
    <3> QED BY <2>0, <3>1, <3>2
  <2>4. \A m \in Nodes \ {n} : image'[m] = image[m] /\ chart'[m] = chart[m]
    BY <1>4 DEF Inv, OtherTypes, ChartStarts, SetOf
  <2>5. (~limited => TreeReady') /\ TreeTrue' /\ Kept
    BY <2>1, <2>2, <2>3, <2>4, NodeKept
  <2>6. OpTypes' /\ OtherTypes'
    <3>1. OpTypes'
      BY <2>1 DEF Inv, OpTypes, NodeFrame, opVars
    <3>2. OtherTypes'
      BY <1>4, <2>2, <2>1 DEF Inv, OtherTypes, ChartStarts, NodeFrame, SetOf, lockVars
    <3> QED BY <3>1, <3>2
  <2>7. Order' /\ TreeInTime'
    BY <1>4, <2>1, <2>5 DEF Inv, Order, TreeInTime, Fresh, Limiting, Preparing, Active,
       ChartStarts, At, NodeFrame, SetOf, lockVars, opVars
  <2> QED BY <2>5, <2>6, <2>7 DEF Inv
<1>5. CASE ChartEnds(n)
  <2>1. UNCHANGED limited /\ NodeFrame /\ (~limited => TreeReady)
    BY <1>5 DEF ChartEnds, NodeFrame, opVars, SetOf, Inv, Order, TreeInTime, Active
  <2>0. \/ chart[n] = "helm" /\ chart'[n] = "health" /\ SetChart(n, "done")
        \/ chart[n] = "helm" /\ chart'[n] = "failed" /\ SetChart(n, "failed")
        \/ chart'[n] = "failed" /\ doc' = doc
    BY <1>5 DEF ChartEnds, SetOf, Inv, OtherTypes
  <2> image' = image
    BY <1>5 DEF ChartEnds, SetOf
  <2>2. doc' \in Document \cup {Null}
    BY <2>0, ChartTold DEF Inv, OtherTypes
  <2>3. ~limited => NodeTold(n) /\ Right(n)
    <3>1. CASE chart[n] = "helm" /\ chart'[n] = "health" /\ SetChart(n, "done")
      <4>1. ~limited => NodeTold(n) /\ ChartIs(n, "done")
        BY <2>1, <3>1, ChartTold DEF Inv
      <4> QED BY <3>1, <4>1, RightChart
    <3>2. CASE chart[n] = "helm" /\ chart'[n] = "failed" /\ SetChart(n, "failed")
      <4>1. ~limited => NodeTold(n) /\ ChartIs(n, "failed")
        BY <2>1, <3>2, ChartTold DEF Inv
      <4> QED BY <3>2, <4>1, RightChart
    <3>3. CASE chart'[n] = "failed" /\ doc' = doc
      BY <3>3, RightNothing
    <3> QED BY <2>0, <3>1, <3>2, <3>3
  <2>4. \A m \in Nodes \ {n} : image'[m] = image[m] /\ chart'[m] = chart[m]
    BY <1>5 DEF Inv, OtherTypes, ChartEnds, SetOf
  <2>5. (~limited => TreeReady') /\ TreeTrue' /\ Kept
    BY <2>1, <2>2, <2>3, <2>4, NodeKept
  <2>6. OpTypes' /\ OtherTypes'
    <3>1. OpTypes'
      BY <2>1 DEF Inv, OpTypes, NodeFrame, opVars
    <3>2. OtherTypes'
      BY <1>5, <2>2, <2>1 DEF Inv, OtherTypes, ChartEnds, NodeFrame, SetOf, lockVars
    <3> QED BY <3>1, <3>2
  <2>7. Order' /\ TreeInTime'
    BY <1>5, <2>1, <2>5 DEF Inv, Order, TreeInTime, Fresh, Limiting, Preparing, Active,
       ChartEnds, At, NodeFrame, SetOf, lockVars, opVars
  <2> QED BY <2>5, <2>6, <2>7 DEF Inv
<1>6. CASE Healthy(n)
  <2>1. UNCHANGED limited /\ NodeFrame /\ (~limited => TreeReady)
    BY <1>6 DEF Healthy, NodeFrame, opVars, SetOf, Inv, Order, TreeInTime, Active
  <2>2. doc' \in Document \cup {Null}
    BY <1>6 DEF Inv, OtherTypes, Healthy
  <2>3. ~limited => NodeTold(n) /\ Right(n)
    <3>1. chart'[n] \in {"ok", "failed"} /\ doc' = doc /\ image' = image
      BY <1>6 DEF Inv, OtherTypes, Healthy, SetOf
    <3> QED BY <3>1, RightNothing
  <2>4. \A m \in Nodes \ {n} : image'[m] = image[m] /\ chart'[m] = chart[m]
    BY <1>6 DEF Inv, OtherTypes, Healthy, SetOf
  <2>5. (~limited => TreeReady') /\ TreeTrue' /\ Kept
    BY <2>1, <2>2, <2>3, <2>4, NodeKept
  <2>6. OpTypes' /\ OtherTypes'
    <3>1. OpTypes'
      BY <2>1 DEF Inv, OpTypes, NodeFrame, opVars
    <3>2. OtherTypes'
      BY <1>6, <2>2, <2>1 DEF Inv, OtherTypes, Healthy, NodeFrame, SetOf, lockVars
    <3> QED BY <3>1, <3>2
  <2>7. Order' /\ TreeInTime'
    BY <1>6, <2>1, <2>5 DEF Inv, Order, TreeInTime, Fresh, Limiting, Preparing, Active,
       Healthy, At, NodeFrame, SetOf, lockVars, opVars
  <2> QED BY <2>5, <2>6, <2>7 DEF Inv
<1> QED BY <1>1, <1>2, <1>3, <1>4, <1>5, <1>6 DEF ChartStep

-----------------------------------------------------------------------------
(* The theorems *)

LEMMA InvInit == Init => Inv
<1> SUFFICES ASSUME Init PROVE Inv
  OBVIOUS
<1>1. OpTypes /\ OtherTypes
  BY DEF Init, OpTypes, OtherTypes
<1>2. ~Active
  BY DEF Init, Active
<1>3. Order /\ TreeInTime /\ TreeTrue
  BY <1>2 DEF Init, Order, TreeInTime, TreeTrue, TreeEmpty, Limiting, Preparing
<1> QED BY <1>1, <1>3 DEF Inv

LEMMA InvNext ==
    ASSUME Inv, [Next]_vars
    PROVE  Inv' /\ Kept
<1>1. CASE UNCHANGED vars
  <2>1. SameTree /\ UNCHANGED nodeVars /\ UNCHANGED limited
    BY <1>1, UnchangedKeepsTree DEF Inv, vars, nodeVars
  <2>2. OpTypes' /\ OtherTypes' /\ Order' /\ TreeInTime'
    BY <1>1, <2>1, Steady DEF Inv, OpTypes, OtherTypes, Order, TreeInTime, vars
  <2> QED BY <2>1, <2>2, Steady DEF Inv
<1> QED BY <1>1, InvCaller, InvOp, InvNode DEF Next

THEOREM InvHolds == Spec => []Inv
<1>1. Inv /\ [Next]_vars => Inv'
  BY InvNext
<1> QED BY InvInit, <1>1, PTL DEF Spec

\* The document and the states of the goroutines keep their types, for any
\* charts and any images.
THEOREM TypeCorrect == Spec => []TypeOK
<1>1. Inv => TypeOK
  BY DEF Inv, OpTypes, OtherTypes, TypeOK
<1> QED BY <1>1, InvHolds, PTL

\* No writer of the document makes it NULL, in whatever order they write.
THEOREM DocumentKept == Spec => NeverErased
<1>1. Inv /\ [Next]_vars => (doc # Null /\ ~limited' => doc' # Null)
  BY InvNext DEF Kept
<1> QED BY <1>1, InvHolds, PTL DEF Spec, NeverErased

\* No writer takes back that an image is built or a chart is installed or failed.
THEOREM TreeMonotone == Spec => ProgressKept
<1>1. Inv /\ [Next]_vars =>
        (doc # Null /\ doc' # Null /\ ~limited' =>
            \A n \in DOMAIN doc.tree :
                /\ n \in DOMAIN doc'.tree
                /\ doc.tree[n].image \in {"built", "failed"} =>
                      doc'.tree[n].image = doc.tree[n].image
                /\ doc.tree[n].chart \in {"done", "failed"} =>
                      doc'.tree[n].chart = doc.tree[n].chart)
  BY InvNext DEF Kept
<1> QED BY <1>1, InvHolds, PTL DEF Spec, ProgressKept
----------------------------------------------------------------------------
(* What an event shows in the end is what has happened, for any set of       *)
(* charts and images, on top of the invariant above.                         *)

\* What the caller has been told: the outcome of the operation, once it has one.
SeenTrue ==
    /\ caller \in {"received", "lock", "select"} => seen = "nothing"
    /\ caller = "fail" => seen \in {"error", "cancelled"}
    /\ seen = "ok" => op = "ended" /\ ~failed
    /\ seen = "error" => \/ op = "idle" /\ caller = "returned"
                         \/ op = "ended" /\ failed

\* The status of an event that nobody has interrupted, and when it can be done.
StatusTrue ==
    ~limited /\ doc # Null =>
        /\ op = "ended" /\ ~failed /\ ~preempted => doc.status = "done" \/ seen = "cancelled"
        /\ op = "ended" /\ seen = "error" /\ caller # "fail" => doc.status = "failed"
        /\ kind # "delete" /\ doc.status = "done" => op = "ended" /\ ~failed

\* A chart beyond its callback has its image, and an operation that has not failed has
\* waited for all of them.
ChartsTrue ==
    /\ op \in {"unknown", "unknownEnd"} => kind = "delete"
    /\ \A n \in Nodes :
        /\ n \notin Built => image[n] = "idle"
        /\ n \in Built /\ (op = "walk" \/ chart[n] # "idle") => image[n] # "idle"
        /\ n \in Built /\ chart[n] \in {"helm", "health", "ok"} => image[n] = "built"
        /\ kind # "delete" /\ ~failed /\ op \in {"render", "finish", "ended"} => chart[n] = "ok"

\* What is over in the installation is shown as over.
TreeTold ==
    ~limited /\ doc # Null =>
        \A n \in DOMAIN doc.tree :
            /\ chart[n] \in {"health", "ok"} => doc.tree[n].chart = "done"
            /\ image[n] = "built" => doc.tree[n].image = "built"
            /\ image[n] = "idle" => doc.tree[n].image = "none"

\* The invariant of the two theorems, which also uses Inv
OutcomeInv == SeenTrue /\ StatusTrue /\ ChartsTrue /\ TreeTold

-----------------------------------------------------------------------------
(* What each kind of step leaves alone, and what it does to the status *)

\* An update of the document keeps it, and gives it this status.
Told(s) == doc' # Null => doc # Null /\ doc'.status = s

\* A statement about something else keeps the status.
SameStatus == doc' # Null => doc # Null /\ doc'.status = doc.status

LEMMA CompletedTells ==
    ASSUME OtherTypes, NEW s \in {"done", "failed"}, SetCompletedStatus(s)
    PROVE  Told(s)
BY DEF SetCompletedStatus, Write, Told, OtherTypes, Document

LEMMA RenderedSameStatus ==
    ASSUME OtherTypes, NEW s \in {"pending", "success", "failure"}, SetRenderedStatus(s)
    PROVE  SameStatus
BY DEF SetRenderedStatus, Write, SameStatus, OtherTypes, Document

LEMMA InitialSameStatus ==
    ASSUME OtherTypes, NEW S \in {Nodes, OtherNodes}, SetInitialStatus(S)
    PROVE  SameStatus
BY DEF SetInitialStatus, Write, SameStatus, OtherTypes, Document

LEMMA NodeSameStatus ==
    ASSUME OtherTypes, NEW n \in Nodes,
           \/ \E v \in {"started", "built", "failed"} : SetImage(n, v)
           \/ \E v \in {"working", "done", "failed"} : SetChart(n, v)
    PROVE  SameStatus
BY DEF SetImage, SetChart, WriteNode, SameStatus, OtherTypes, Document

LEMMA NewPending ==
    ASSUME NEW t, SetNewStatus(t)
    PROVE  doc'.status = "pending"
BY DEF SetNewStatus

\* The operation runs until it has ended, and leaves the lock and, but for the start of
\* the installation, the nodes alone.
LEMMA OpFrame ==
    ASSUME OpTypes, OpStep
    PROVE  /\ op \notin {"idle", "ended"} /\ op' # "idle"
           /\ UNCHANGED lockVars /\ UNCHANGED chart
           /\ op # "install" => UNCHANGED image
           /\ limited => limited'
           /\ kind' = "delete" <=> kind = "delete"
<1> USE DEF At, Goto, Continue, Error, Frame, lockVars, nodeVars, OpTypes
<1>1. CASE GetEnv \/ Generate \/ New \/ ProcessConfig \/ Started
  BY <1>1 DEF GetEnv, Generate, New, ProcessConfig, Started
<1>2. CASE Commit \/ FetchCharts \/ Limit \/ LimitNew \/ LimitConfig \/ LimitEnd
  BY <1>2 DEF Commit, FetchCharts, Limit, LimitNew, LimitConfig, LimitEnd
<1>3. CASE Install \/ WalkReturns \/ Render \/ Finish \/ Unknown \/ UnknownEnd
  BY <1>3 DEF Install, WalkReturns, Render, Finish, Unknown, UnknownEnd
<1> QED BY <1>1, <1>2, <1>3 DEF OpStep

\* The goroutines of the nodes leave everything else alone.
LEMMA NodeLeaves ==
    ASSUME NEW n \in Nodes, ImageBegins(n) \/ ImageEnds(n) \/ Launch(n) \/ ChartStep(n)
    PROVE  NodeFrame
BY DEF ImageBegins, ImageEnds, Launch, ChartStep, ChartStarts, ChartEnds, Healthy

\* Those around the operation leave its nodes and its result alone, and start it once.
LEMMA CallerFrame ==
    ASSUME Inv, CallerStep \/ WatcherStep \/ Preempt \/ Timeout
    PROVE  /\ UNCHANGED <<kind, failed, limited, image, chart>>
           /\ op' = op \/ (caller = "lock" /\ op = "idle" /\ op' \in {"generate", "getenv"})
<1> USE DEF opVars, nodeVars
<1>1. CASE CallerStep
  <2>1. op' = op \/ (caller = "lock" /\ op' \in {"generate", "getenv"})
    BY <1>1 DEF CallerStep, Receive, Locked, Select, Fail, Leave
  <2>2. UNCHANGED <<kind, failed, limited, image, chart>>
    BY <1>1 DEF CallerStep, Receive, Locked, Select, Fail, Leave
  <2> QED BY <2>1, <2>2 DEF Inv, Order
<1>2. CASE WatcherStep \/ Preempt \/ Timeout
  BY <1>2 DEF WatcherStep, WatcherMarks, WatcherCancels, Preempt, Timeout
<1> QED BY <1>1, <1>2

-----------------------------------------------------------------------------
(* What the caller has seen *)

LEMMA SeenCaller ==
    ASSUME Inv, SeenTrue, CallerStep \/ WatcherStep \/ Preempt \/ Timeout
    PROVE  SeenTrue'
<1> USE DEF SeenTrue, opVars, Inv, Order, OtherTypes
<1>1. CASE Receive  BY <1>1 DEF Receive
<1>2. CASE Locked   BY <1>2 DEF Locked
<1>3. CASE Select   BY <1>3 DEF Select
<1>4. CASE Fail     BY <1>4 DEF Fail
<1>5. CASE Leave    BY <1>5 DEF Leave
<1>6. CASE WatcherStep \/ Preempt \/ Timeout
  BY <1>6 DEF WatcherStep, WatcherMarks, WatcherCancels, Preempt, Timeout
<1> QED BY <1>1, <1>2, <1>3, <1>4, <1>5, <1>6 DEF CallerStep

LEMMA SeenStep ==
    ASSUME Inv, SeenTrue, Next
    PROVE  SeenTrue'
<1>1. CASE OpStep
  BY <1>1, OpFrame DEF Inv, SeenTrue, lockVars
<1>2. ASSUME NEW n \in Nodes, ImageBegins(n) \/ ImageEnds(n) \/ Launch(n) \/ ChartStep(n)
      PROVE  SeenTrue'
  BY <1>2, NodeLeaves DEF SeenTrue, NodeFrame, lockVars, opVars
<1> QED BY <1>1, <1>2, SeenCaller DEF Next

-----------------------------------------------------------------------------
(* The status *)

LEMMA StatusCaller ==
    ASSUME Inv, SeenTrue, StatusTrue, CallerStep \/ WatcherStep \/ Preempt \/ Timeout
    PROVE  StatusTrue'
<1> USE DEF StatusTrue
<1>1. /\ UNCHANGED <<kind, failed, limited, image, chart>>
      /\ op' = op \/ (caller = "lock" /\ op = "idle" /\ op' \in {"generate", "getenv"})
  BY CallerFrame
<1>2. CASE Receive
  <2>1. doc' = doc \/ doc'.status = "pending"
    BY <1>2, NewPending DEF Receive
  <2>2. op = "idle" /\ op' = op
    BY <1>2 DEF Receive, opVars, Inv, Order
  <2> QED BY <1>1, <2>1, <2>2
<1>3. CASE Locked
  BY <1>1, <1>3 DEF Locked, Inv, Order
<1>4. CASE Select
  BY <1>1, <1>4 DEF Select, SeenTrue, opVars
<1>5. CASE Fail
  <2>1. Told("failed")
    BY <1>5, CompletedTells DEF Fail, SetFailedStatus, Inv
  <2>2. op' = op /\ seen' = seen /\ preempted' = preempted /\ seen \in {"error", "cancelled"}
    BY <1>5 DEF Fail, SeenTrue, opVars
  <2>3. seen = "error" => op = "ended" /\ failed
    BY <1>5 DEF Fail, SeenTrue
  <2> QED BY <1>1, <2>1, <2>2, <2>3 DEF Told
<1>6. CASE Leave
  BY <1>1, <1>6 DEF Leave, SeenTrue, opVars
<1>7. CASE WatcherMarks
  <2>1. Told("failed")
    BY <1>7, CompletedTells DEF WatcherMarks, Inv
  <2> QED BY <1>1, <1>7, <2>1 DEF WatcherMarks, Told, opVars
<1>8. CASE WatcherCancels \/ Preempt \/ Timeout
  BY <1>1, <1>8 DEF WatcherCancels, Preempt, Timeout, opVars
<1> QED BY <1>2, <1>3, <1>4, <1>5, <1>6, <1>7, <1>8 DEF CallerStep, WatcherStep

\* What a step of the operation makes of the status: an operation that ends without an
\* error leaves it at done, and nothing else does, but for a delete and its event.
LEMMA StatusOfOp ==
    ASSUME Inv, ChartsTrue, OpStep, ~limited', doc' # Null
    PROVE  /\ op' = "ended" /\ ~failed' => doc'.status = "done"
           /\ kind # "delete" /\ doc'.status = "done" =>
                 \/ op' = "ended" /\ ~failed'
                 \/ doc # Null /\ doc.status = "done"
<1> USE DEF At, Goto, Continue, Error, OpTypes, Inv
<1>0. ~limited
  BY OpFrame
<1>1. CASE GetEnv
  <2>1. doc' = doc \/ Told("failed")
    BY <1>1, CompletedTells DEF GetEnv
  <2> QED BY <1>1, <2>1 DEF GetEnv, Told
<1>2. CASE Generate       BY <1>2 DEF Generate
<1>3. CASE New            BY <1>3, NewPending DEF New
<1>4. CASE ProcessConfig
  <2>1. doc' = doc \/ SameStatus
    BY <1>4, InitialSameStatus DEF ProcessConfig
  <2> QED BY <1>4, <2>1 DEF ProcessConfig, SameStatus
<1>5. CASE Started        BY <1>5 DEF Started
<1>6. CASE Commit
  <2>1. doc' = doc \/ SameStatus
    BY <1>6, RenderedSameStatus DEF Commit
  <2> QED BY <1>6, <2>1 DEF Commit, SameStatus
<1>7. CASE FetchCharts    BY <1>7 DEF FetchCharts
<1>8. CASE Limit          BY <1>8 DEF Limit
<1>9. CASE LimitNew \/ LimitConfig \/ LimitEnd
  BY <1>0, <1>9 DEF LimitNew, LimitConfig, LimitEnd, Order, Limiting
<1>10. CASE Install       BY <1>10 DEF Install
<1>11. CASE WalkReturns   BY <1>11 DEF WalkReturns
<1>12. CASE Render
  <2>1. doc' = doc \/ SameStatus
    BY <1>12, RenderedSameStatus DEF Render
  <2> QED BY <1>12, <2>1 DEF Render, SameStatus
<1>13. CASE Finish
  <2>1. op' = "ended" /\ Told(IF failed' THEN "failed" ELSE "done")
    BY <1>13, CompletedTells DEF Finish
  <2> QED BY <2>1 DEF Told
<1>14. CASE Unknown       BY <1>14, NewPending DEF Unknown
<1>15. CASE UnknownEnd
  <2>1. Told("done") /\ kind = "delete"
    BY <1>15, CompletedTells DEF UnknownEnd, ChartsTrue
  <2> QED BY <2>1 DEF Told
<1> QED BY <1>1, <1>2, <1>3, <1>4, <1>5, <1>6, <1>7, <1>8, <1>9, <1>10, <1>11, <1>12,
   <1>13, <1>14, <1>15 DEF OpStep

LEMMA StatusOp ==
    ASSUME Inv, OutcomeInv, OpStep
    PROVE  StatusTrue'
<1> SUFFICES ASSUME ~limited', doc' # Null
             PROVE  /\ op' = "ended" /\ ~failed' => doc'.status = "done"
                    /\ ~(op' = "ended" /\ seen' = "error")
                    /\ kind' # "delete" /\ doc'.status = "done" => op' = "ended" /\ ~failed'
  BY DEF StatusTrue
<1>1. /\ op \notin {"idle", "ended"} /\ op' # "idle" /\ seen' = seen
      /\ ~limited /\ (kind' = "delete" <=> kind = "delete")
  BY OpFrame DEF Inv, lockVars
<1>2. seen' # "error"
  BY <1>1 DEF OutcomeInv, SeenTrue
<1>3. /\ op' = "ended" /\ ~failed' => doc'.status = "done"
      /\ kind # "delete" /\ doc'.status = "done" =>
            \/ op' = "ended" /\ ~failed'
            \/ doc # Null /\ doc.status = "done"
  BY StatusOfOp DEF OutcomeInv
<1> QED BY <1>1, <1>2, <1>3 DEF OutcomeInv, StatusTrue

LEMMA StatusStep ==
    ASSUME Inv, OutcomeInv, Next
    PROVE  StatusTrue'
<1>1. CASE OpStep
  BY <1>1, StatusOp
<1>2. ASSUME NEW n \in Nodes, ImageBegins(n) \/ ImageEnds(n) \/ Launch(n) \/ ChartStep(n)
      PROVE  StatusTrue'
  <2>1. UNCHANGED <<kind, caller, preempted, seen, op, failed, limited>>
    BY <1>2, NodeLeaves DEF NodeFrame, lockVars, opVars
  <2>2. doc' = doc \/ SameStatus
    BY <1>2, NodeSameStatus DEF Inv, ImageBegins, ImageEnds, Launch, ChartStep, ChartStarts,
       ChartEnds, Healthy
  <2> QED BY <2>1, <2>2 DEF OutcomeInv, StatusTrue, SameStatus
<1> QED BY <1>1, <1>2, StatusCaller DEF Next, OutcomeInv

-----------------------------------------------------------------------------
(* The charts and their images *)

LEMMA ChartsOp ==
    ASSUME Inv, ChartsTrue, OpStep
    PROVE  ChartsTrue'
<1> USE DEF At, Goto, Continue, Error
<1>1. /\ chart' = chart /\ (kind' = "delete" <=> kind = "delete")
      /\ op # "install" => image' = image
  BY OpFrame DEF Inv
<1>2. op' \in {"unknown", "unknownEnd"} => kind' = "delete"
  BY <1>1 DEF OpStep, GetEnv, Generate, New, ProcessConfig, Started, Commit, FetchCharts,
     Limit, LimitNew, LimitConfig, LimitEnd, Install, WalkReturns, Render, Finish, Unknown,
     UnknownEnd, ChartsTrue
<1>3. CASE Install
  <2>1. \A n \in Nodes : chart[n] = "idle" /\ image[n] = "idle"
    BY <1>3 DEF Install, Inv, Order, Preparing, Active
  <2>2. \/ op' = "walk" /\ image' = [n \in Nodes |-> IF n \in Built THEN "begin" ELSE "idle"]
        \/ op' # "walk" /\ failed' /\ image' = image
        \/ op' = "finish" /\ kind' = "delete" /\ image' = image
    BY <1>3 DEF Install
  <2> QED BY <1>1, <1>2, <2>1, <2>2 DEF ChartsTrue
<1>4. CASE ~Install
  <2>1. op' # "walk" /\ image' = image
    BY <1>4, <1>1 DEF OpStep, GetEnv, Generate, New, ProcessConfig, Started, Commit,
       FetchCharts, Limit, LimitNew, LimitConfig, LimitEnd, WalkReturns, Render, Finish,
       Unknown, UnknownEnd, Frame, nodeVars
  <2>2. kind # "delete" /\ ~failed' /\ op' \in {"render", "finish", "ended"} =>
           \/ ~failed /\ op \in {"render", "finish", "ended"}
           \/ \A n \in Nodes : chart[n] = "ok"
    BY <1>4 DEF OpStep, GetEnv, Generate, New, ProcessConfig, Started, Commit,
       FetchCharts, Limit, LimitNew, LimitConfig, LimitEnd, WalkReturns, Render, Finish,
       Unknown, UnknownEnd, ChartsTrue, Inv, OpTypes
  <2> QED BY <1>1, <1>2, <2>1, <2>2 DEF ChartsTrue
<1> QED BY <1>3, <1>4

LEMMA ChartsNode ==
    ASSUME Inv, ChartsTrue, NEW n \in Nodes,
           ImageBegins(n) \/ ImageEnds(n) \/ Launch(n) \/ ChartStep(n)
    PROVE  ChartsTrue'
<1>1. UNCHANGED <<kind, op, failed>>
  BY NodeLeaves DEF NodeFrame, opVars
<1>2. \A m \in Nodes \ {n} : image'[m] = image[m] /\ chart'[m] = chart[m]
  BY DEF ImageBegins, ImageEnds, Launch, ChartStep, ChartStarts, ChartEnds, Healthy, SetOf,
     Inv, OtherTypes
<1>3. \/ image[n] = "begin" /\ image'[n] = "building" /\ chart'[n] = chart[n]
      \/ image[n] = "building" /\ image'[n] \in {"built", "failed"} /\ chart'[n] = chart[n]
      \/ image'[n] = image[n] /\ op = "walk" /\ chart[n] = "idle" /\ chart'[n] = "asking"
      \/ image'[n] = image[n] /\ chart[n] \notin {"idle", "ok"} /\ chart'[n] = "failed"
      \/ /\ image'[n] = image[n] /\ image[n] \in {"idle", "built"}
         /\ chart[n] = "asking" /\ chart'[n] = "helm"
      \/ image'[n] = image[n] /\ chart[n] = "helm" /\ chart'[n] = "health"
      \/ image'[n] = image[n] /\ chart[n] = "health" /\ chart'[n] = "ok"
  BY DEF ImageBegins, ImageEnds, Launch, ChartStep, ChartStarts, ChartEnds, Healthy, SetOf,
     At, Inv, OtherTypes
<1> QED BY <1>1, <1>2, <1>3 DEF ChartsTrue

LEMMA ChartsStep ==
    ASSUME Inv, ChartsTrue, Next
    PROVE  ChartsTrue'
<1>1. CASE CallerStep \/ WatcherStep \/ Preempt \/ Timeout
  BY <1>1, CallerFrame DEF ChartsTrue
<1> QED BY <1>1, ChartsOp, ChartsNode DEF Next

-----------------------------------------------------------------------------
(* What the tree shows *)

\* A step that leaves the nodes alone and keeps the tree or empties it
LEMMA TreeToldSteady ==
    ASSUME TreeTold, UNCHANGED <<image, chart>>, limited => limited',
           SameTree \/ (doc' # Null => DOMAIN doc'.tree = {})
    PROVE  TreeTold'
BY DEF TreeTold, SameTree

\* A new tree, before the installation.
LEMMA TreeToldInitial ==
    ASSUME Inv, ~Active, SetInitialStatus(Nodes), UNCHANGED <<image, chart>>
    PROVE  TreeTold'
<1>1. doc' # Null => doc'.tree = NewTree(Nodes)
  BY InitialStatus DEF Inv
<1>2. \A n \in Nodes : image'[n] = "idle" /\ chart'[n] = "idle"
  BY DEF Active
<1> QED BY <1>1, <1>2, NewTreeType DEF TreeTold

LEMMA TreeToldOp ==
    ASSUME Inv, TreeTold, OpStep
    PROVE  TreeTold'
<1> USE DEF Inv
<1>0. CASE limited'
  BY <1>0 DEF TreeTold
<1> SUFFICES ASSUME ~limited' PROVE TreeTold'
  BY <1>0
<1>1. ~limited /\ chart' = chart /\ (op # "install" => image' = image)
  BY OpFrame
<1>2. CASE New \/ Unknown
  <2>1. DOMAIN doc'.tree = {}
    BY <1>2, NewStatus DEF New, Unknown, OtherTypes
  <2>2. op # "install"
    BY <1>2 DEF New, Unknown, At
  <2> QED BY <1>1, <2>1, <2>2, TreeToldSteady
<1>3. CASE ProcessConfig
  <2>1. op # "install" /\ ~Active
    BY <1>3 DEF ProcessConfig, At, Order, Fresh
  <2>2. SetInitialStatus(Nodes) \/ SameTree
    BY <1>3, UnchangedKeepsTree DEF ProcessConfig
  <2> QED BY <1>1, <2>1, <2>2, TreeToldSteady, TreeToldInitial
<1>4. CASE Install
  <2>1. \A n \in Nodes : image[n] = "idle" /\ chart[n] = "idle"
    BY <1>4 DEF Install, At, Order, Preparing, Active
  <2>2. \A n \in Nodes : image'[n] # "built" /\ chart'[n] = "idle"
    BY <1>1, <1>4, <2>1 DEF Install
  <2>3. doc' = doc /\ (doc # Null => DOMAIN doc.tree \subseteq Nodes)
    BY <1>1, <1>4 DEF Install, At, TreeInTime, Preparing, TreeReady
  <2> QED BY <1>1, <2>1, <2>2, <2>3 DEF TreeTold
<1>5. CASE LimitNew \/ LimitConfig \/ LimitEnd
  BY <1>1, <1>5 DEF LimitNew, LimitConfig, LimitEnd, At, Order, Limiting
<1>6. CASE GetEnv \/ UnknownEnd \/ Finish
  <2>1. SameTree
    BY <1>6, UnchangedKeepsTree, CompletedKeepsTree DEF GetEnv, UnknownEnd, Finish
  <2>2. op # "install"
    BY <1>6 DEF GetEnv, UnknownEnd, Finish, At
  <2> QED BY <1>1, <2>1, <2>2, TreeToldSteady
<1>7. CASE Commit \/ Render
  <2>1. SameTree
    BY <1>7, UnchangedKeepsTree, RenderedKeepsTree DEF Commit, Render
  <2>2. op # "install"
    BY <1>7 DEF Commit, Render, At
  <2> QED BY <1>1, <2>1, <2>2, TreeToldSteady
<1>8. CASE Generate \/ Started \/ FetchCharts \/ Limit \/ WalkReturns
  <2>1. SameTree
    BY <1>8, UnchangedKeepsTree DEF Generate, Started, FetchCharts, Limit, WalkReturns
  <2>2. op # "install"
    BY <1>8 DEF Generate, Started, FetchCharts, Limit, WalkReturns, At
  <2> QED BY <1>1, <2>1, <2>2, TreeToldSteady
<1> QED BY <1>2, <1>3, <1>4, <1>5, <1>6, <1>7, <1>8 DEF OpStep

\* The node of a step is told of when it is over.
LEMMA TreeToldNode ==
    ASSUME Inv, TreeTold, ChartsTrue, NEW n \in Nodes,
           ImageBegins(n) \/ ImageEnds(n) \/ Launch(n) \/ ChartStep(n)
    PROVE  TreeTold'
<1> USE DEF Inv
<1> SUFFICES ASSUME ~limited PROVE TreeTold'
  BY NodeLeaves DEF NodeFrame, opVars, TreeTold
<1>1. Active \/ op = "walk"
  BY DEF ImageBegins, ImageEnds, Launch, ChartStep, ChartStarts, ChartEnds, Healthy, Active, At
<1>2. TreeReady
  BY <1>1 DEF TreeInTime
<1>3. \A m \in Nodes \ {n} : image'[m] = image[m] /\ chart'[m] = chart[m]
  BY DEF ImageBegins, ImageEnds, Launch, ChartStep, ChartStarts, ChartEnds, Healthy, SetOf,
     OtherTypes
<1> DEFINE Shown ==
      doc # Null =>
          /\ chart'[n] \in {"health", "ok"} => doc'.tree[n].chart = "done"
          /\ image'[n] = "built" => doc'.tree[n].image = "built"
          /\ image'[n] = "idle" => doc'.tree[n].image = "none"
<1>4. doc # Null =>
          /\ chart[n] \in {"health", "ok"} => doc.tree[n].chart = "done"
          /\ image[n] = "built" => doc.tree[n].image = "built"
          /\ image[n] = "idle" => doc.tree[n].image = "none"
  BY <1>2 DEF TreeTold, TreeReady
<1>5. NodeTold(n) /\ Shown
  <2>1. CASE ImageBegins(n) \/ ImageEnds(n)
    <3>1. PICK v \in {"started", "built", "failed"} :
             /\ SetImage(n, v) /\ chart' = chart
             /\ image'[n] = IF v = "started" THEN "building" ELSE v
      BY <2>1 DEF ImageBegins, ImageEnds, OtherTypes
    <3>2. NodeTold(n) /\ ImageIs(n, v)
      BY <1>2, <3>1, ImageTold
    <3> QED BY <1>4, <3>1, <3>2 DEF ImageIs
  <2>2. CASE Launch(n) \/ Healthy(n)
    <3>1. /\ doc' = doc /\ image' = image
          /\ chart'[n] \in {"asking", "failed"} \/ chart[n] = "health"
      BY <2>2 DEF Launch, Healthy, SetOf, OtherTypes
    <3> QED BY <1>4, <3>1 DEF NodeTold
  <2>3. CASE ChartStarts(n) \/ ChartEnds(n)
    <3>1. image' = image
      BY <2>3 DEF ChartStarts, ChartEnds, SetOf
    <3>2. CASE doc' = doc /\ chart'[n] = "failed"
      BY <1>4, <3>1, <3>2 DEF NodeTold
    <3>3. CASE \E v \in {"working", "done", "failed"} :
                  SetChart(n, v) /\ (chart'[n] \in {"health", "ok"} => v = "done")
      <4>1. PICK v \in {"working", "done", "failed"} :
               SetChart(n, v) /\ (chart'[n] \in {"health", "ok"} => v = "done")
        BY <3>3
      <4>2. NodeTold(n) /\ ChartIs(n, v)
        BY <1>2, <4>1, ChartTold
      <4> QED BY <1>4, <3>1, <4>1, <4>2 DEF ChartIs
    <3> QED
      BY <2>3, <3>2, <3>3 DEF ChartStarts, ChartEnds, SetOf, OtherTypes
  <2> QED BY <2>1, <2>2, <2>3 DEF ChartStep
<1> SUFFICES ASSUME doc' # Null, NEW m \in DOMAIN doc'.tree
             PROVE  /\ chart'[m] \in {"health", "ok"} => doc'.tree[m].chart = "done"
                    /\ image'[m] = "built" => doc'.tree[m].image = "built"
                    /\ image'[m] = "idle" => doc'.tree[m].image = "none"
  BY DEF TreeTold
<1>6. m \in DOMAIN doc.tree /\ m \in Nodes /\ doc # Null
  BY <1>2, <1>5 DEF NodeTold, TreeReady
<1>7. CASE m = n
  BY <1>5, <1>6, <1>7
<1>8. CASE m # n
  BY <1>3, <1>5, <1>6, <1>8 DEF NodeTold, TreeTold
<1> QED BY <1>7, <1>8

LEMMA TreeToldStep ==
    ASSUME Inv, TreeTold, ChartsTrue, Next
    PROVE  TreeTold'
<1>1. CASE CallerStep \/ WatcherStep \/ Preempt \/ Timeout
  <2>1. SameTree \/ (doc' # Null => DOMAIN doc'.tree = {})
    BY <1>1, UnchangedKeepsTree, CompletedKeepsTree, NewStatus DEF Inv, CallerStep,
       WatcherStep, Receive, Locked, Select, Fail, SetFailedStatus, Leave, WatcherMarks,
       WatcherCancels, Preempt, Timeout
  <2> QED BY <1>1, <2>1, CallerFrame, TreeToldSteady
<1> QED BY <1>1, TreeToldOp, TreeToldNode DEF Next

-----------------------------------------------------------------------------
(* The theorems *)

LEMMA OutcomeInit == Init => OutcomeInv
BY EventAssumption DEF Init, OutcomeInv, SeenTrue, StatusTrue, ChartsTrue, TreeTold

LEMMA OutcomeNext ==
    ASSUME Inv, OutcomeInv, [Next]_vars
    PROVE  OutcomeInv'
<1>1. CASE UNCHANGED vars
  BY <1>1 DEF vars, OutcomeInv, SeenTrue, StatusTrue, ChartsTrue, TreeTold
<1>2. CASE Next
  BY <1>2, SeenStep, StatusStep, ChartsStep, TreeToldStep DEF OutcomeInv
<1> QED BY <1>1, <1>2

LEMMA OutcomeHolds == Spec => []OutcomeInv
<1>1. Inv /\ OutcomeInv /\ [Next]_vars => OutcomeInv'
  BY OutcomeNext
<1> QED BY OutcomeInit, <1>1, InvHolds, PTL DEF Spec

\* For any charts and any order of the writers, an event that nobody has preempted shows
\* what the caller of the operation was told.
THEOREM ShowsOutcome == Spec => []OutcomeShown
<1>1. OutcomeInv => OutcomeShown
  BY DEF OutcomeInv, SeenTrue, StatusTrue, OutcomeShown, Quiet
<1> QED BY <1>1, OutcomeHolds, PTL

\* For any charts and any order of the writers, an event of a create or an update that
\* is done has every chart installed from a built image, and shows it.
THEOREM DoneMeansInstalled == Spec => []DoneIsComplete
<1>1. Inv /\ OutcomeInv => DoneIsComplete
  <2> SUFFICES ASSUME Inv, OutcomeInv, ~limited, doc # Null, kind # "delete",
                      doc.status = "done"
               PROVE  /\ DOMAIN doc.tree = Nodes /\ ~failed
                      /\ \A n \in Nodes :
                            /\ doc.tree[n].chart = "done"
                            /\ doc.tree[n].image = IF n \in Built THEN "built" ELSE "none"
    BY DEF DoneIsComplete
  <2>1. op = "ended" /\ ~failed
    BY DEF OutcomeInv, StatusTrue
  <2>2. \A n \in Nodes : chart[n] = "ok" /\ image[n] = IF n \in Built THEN "built" ELSE "idle"
    BY <2>1 DEF OutcomeInv, ChartsTrue
  <2>3. DOMAIN doc.tree = Nodes
    BY <2>2, EventAssumption DEF Active, Inv, TreeInTime, TreeReady
  <2> QED BY <2>1, <2>2, <2>3 DEF OutcomeInv, TreeTold
<1> QED BY <1>1, InvHolds, OutcomeHolds, PTL
=============================================================================
