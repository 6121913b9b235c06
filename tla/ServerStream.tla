---------------------------- MODULE ServerStream ----------------------------
(***************************************************************************)
(* What a transcoded call promises its client, whatever the framing: the   *)
(* messages the upstream sent, in order and none skipped, then one verdict; *)
(* a good verdict only once the upstream ended well and all of them are    *)
(* there, and nothing after either verdict.                                *)
(***************************************************************************)
EXTENDS Naturals, Sequences

CONSTANT Message
VARIABLES
  sent,     \* what the upstream sent that the route carries
  ended,    \* how the upstream ended, "no" before it does
  got,      \* what the client received
  verdict   \* "open", "ok", "error", or "cut": it left, or wanted no body

streamVars == <<sent, ended, got, verdict>>

StreamInit == sent = <<>> /\ ended = "no" /\ got = <<>> /\ verdict = "open"

Send == \E m \in Message : sent' = Append(sent, m) /\ ended = "no" /\ UNCHANGED <<ended, got, verdict>>
End == /\ ended = "no" /\ ended' \in {"ok", "error"}
       /\ UNCHANGED <<sent, got, verdict>>
Deliver ==
  /\ verdict = "open" /\ Len(got) < Len(sent)
  /\ got' = Append(got, sent[Len(got) + 1]) /\ UNCHANGED <<sent, ended, verdict>>
CloseOk ==
  /\ verdict = "open" /\ ended = "ok" /\ verdict' = "ok" /\ got' = sent
  /\ UNCHANGED <<sent, ended>>
\* An upstream may end with the error that answers the call.
StopEarly(how) ==
  /\ verdict = "open" /\ verdict' = how /\ UNCHANGED <<sent, got>>
  /\ ended' = ended \/ (ended = "no" /\ ended' = "error")

StreamNext == Send \/ End \/ Deliver \/ CloseOk \/ StopEarly("error") \/ StopEarly("cut")
StreamSpec == StreamInit /\ [][StreamNext]_streamVars
=============================================================================
