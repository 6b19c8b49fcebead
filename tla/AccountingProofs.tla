-------------------------- MODULE AccountingProofs --------------------------
(* The abstract accounting does promise what it is meant to. *)
EXTENDS Accounting, TLAPS

\* The shape of the abstract state.
Shape ==
  /\ open \subseteq Token
  /\ dropped \subseteq Token
  /\ published \in [Token -> Nat]

\* No token is published twice by any run of the accounting, and a token that is open
\* or dropped was not published: what generateInterMetrics and flushForward hand out
\* between them counts each sample once, for every set of tokens.
THEOREM AccountedExactlyOnce == Spec => []ExactlyOnce
<1>1. Init => Shape /\ ExactlyOnce
  BY DEF Init, Shape, ExactlyOnce
<1>2. Shape /\ ExactlyOnce /\ [Next]_vars => (Shape /\ ExactlyOnce)'
  <2> SUFFICES ASSUME Shape, ExactlyOnce, [Next]_vars
               PROVE  Shape' /\ ExactlyOnce'
    OBVIOUS
  <2>1. CASE Accept
    BY <2>1 DEF Accept, Shape, ExactlyOnce
  <2>2. CASE Settle
    <3>1. open' \subseteq open /\ open' \subseteq Token
      BY <2>2 DEF Settle, Shape
    <3>2. dropped' = dropped \cup ((open \ open') \cap dropped')
      BY <2>2 DEF Settle
    <3>3. published' = [t \in Token |-> IF t \in (open \ open') \ dropped'
                                          THEN published[t] + 1 ELSE published[t]]
      BY <2>2 DEF Settle
    <3>4. dropped' \subseteq Token
      BY <3>2 DEF Shape
    <3>5. \A t \in Token : published'[t] = IF t \in (open \ open') \ dropped'
                                             THEN 1 ELSE published[t]
      BY <3>3 DEF Shape, ExactlyOnce
    <3>6. published' \in [Token -> Nat]
      BY <3>3 DEF Shape
    <3>7. open' \cap dropped' = {}
      BY <3>1, <3>2 DEF ExactlyOnce
    <3>8. \A t \in open' \cup dropped' : published'[t] = 0
      BY <3>1, <3>2, <3>4, <3>5 DEF ExactlyOnce
    <3>9. \A t \in Token : published'[t] <= 1
      BY <3>5 DEF Shape, ExactlyOnce
    <3> QED
      BY <3>1, <3>4, <3>6, <3>7, <3>8, <3>9 DEF Shape, ExactlyOnce
  <2>3. CASE UNCHANGED vars
    BY <2>3 DEF vars, Shape, ExactlyOnce
  <2> QED
    BY <2>1, <2>2, <2>3 DEF Next
<1> QED
  BY <1>1, <1>2, PTL DEF Spec
=============================================================================
