---------------------------- MODULE MCProjection ----------------------------
(* A call of three roles, a document that contests the first one's slot, one *)
(* that takes another slot without a timestamp, and a plain line.            *)
EXTENDS Projection

MCDocument   == {"request", "rival", "ack", "reply", "line"}
MCInvocation == {"call"}
MCRole       == {"req", "ack", "resp"}

Call(r) == [inv |-> "call", role |-> r]

MCSlotOf == [d \in Document |->
    CASE d = "request" -> Call("req")
      [] d = "rival"   -> Call("req")
      [] d = "ack"     -> Call("ack")
      [] d = "reply"   -> Call("resp")
      [] OTHER         -> None]

MCStamp == [d \in Document |->
    CASE d = "request" -> 2
      [] d = "rival"   -> 1
      [] d = "ack"     -> 0
      [] d = "reply"   -> 4
      [] OTHER         -> 3]

MCRequires  == [i \in MCInvocation |-> {"req", "resp"}]
MCSize      == [d \in Document |-> 1]

Definition(roles, requires) ==
    [roles |-> [i \in MCInvocation |-> roles], requires |-> [i \in MCInvocation |-> requires]]

Requested == Definition(<<"req", "ack", "resp">>, <<"req", "resp">>)

MCRules     == {Requested}

Status == [name |-> "status", from |-> "req"]
Final  == [name |-> "final", from |-> "last"]
Some   == [name |-> "some", from |-> "any"]
First  == [name |-> "first", from |-> "first"]
MCPromotion == {Status, Final, Some, First}
MCValueOf   == [p \in Promotion |-> [d \in Document |->
    CASE d = "request" -> "200" [] d = "rival" -> "text" [] d = "reply" -> "500" [] OTHER -> None]]
MCCoerces   == [p \in Promotion |-> {"200", "500"}]
=============================================================================
