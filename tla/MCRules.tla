------------------------------- MODULE MCRules -------------------------------
(* What Circle may answer in the TLC instance of Rules: nothing, one tier,  *)
(* or two in either order, with and without a minimum fee, with all, some   *)
(* or none of the forwarding fees.                                          *)
EXTENDS Rules

ForwardFees == {[low |-> 1, med |-> 2, high |-> 3], [low |-> 1, med |-> 2],
                [low |-> 1], [none \in {} |-> 0]}
Entries == [finalityThreshold : {1000, 2000}, minimumFee : {0, 1}, forwardFee : ForwardFees]

MCFeeReply ==
  {<<>>} \cup {<<e>> : e \in Entries}
  \cup {<<e[1], e[2]>> : e \in {p \in Entries \X Entries :
          p[1].finalityThreshold # p[2].finalityThreshold /\ p[1].minimumFee = 1}}
=============================================================================
