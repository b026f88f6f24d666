----------------------------- MODULE MCQrWidget -----------------------------
(***************************************************************************)
(* An instance of QrWidget with codes of one and of two modules a side.    *)
(***************************************************************************)
EXTENDS QrWidget

CONSTANTS short, long, low, medium

\* The long text does not fit at the medium level.
TestModules ==
  [string \in {short, long} |-> [level \in {low, medium} |->
     CASE string = short /\ level = low -> <<<<TRUE>>>>
       [] string = short /\ level = medium -> <<<<TRUE, FALSE>>, <<FALSE, FALSE>>>>
       [] string = long /\ level = low -> <<<<FALSE, TRUE>>, <<TRUE, TRUE>>>>
       [] OTHER -> <<>>]]

Red == [red |-> 255, green |-> 0, blue |-> 0, alpha |-> 255]
TestRequests ==
  {[text |-> long, requested_size |-> 3, bg_color |-> None, fg_color |-> None,
    format |-> "a-8", ecc |-> low],
   [text |-> short, requested_size |-> 2, bg_color |-> None, fg_color |-> Red,
    format |-> "rgba-8888", ecc |-> low]}
=============================================================================
