-------------------------- MODULE MCChartInstaller --------------------------
(* Three charts, two of them with an image to build, in every graph.        *)
EXTENDS ChartInstaller

CONSTANTS a, b, c

ThreeCharts == {a, b, c}
TwoCharts == {a, b}
OneChart == {a}

=============================================================================
