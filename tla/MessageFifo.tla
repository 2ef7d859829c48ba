---------------------------- MODULE MessageFifo -----------------------------
(***************************************************************************)
(* What an OpenFlow connection promises its two ends, whatever the bytes   *)
(* and the cuts of the stream below it: the objects handed to the handlers *)
(* of the reader are the objects the writer passed to send(), in order,    *)
(* none twice and none left out.  One call of read() may hand over several.*)
(***************************************************************************)
EXTENDS Naturals, Sequences

CONSTANT Objects  \* the objects that may be sent
VARIABLES sent,   \* the objects passed to send()
          got     \* the objects handed to the reader's handlers

Init == sent = <<>> /\ got = <<>>

Send == /\ Len(sent') = Len(sent) + 1
        /\ sent'[Len(sent')] \in Objects
        /\ sent' = Append(sent, sent'[Len(sent')])
        /\ UNCHANGED got

Deliver == /\ \E n \in Len(got) + 1 .. Len(sent) : got' = SubSeq(sent, 1, n)
           /\ UNCHANGED sent

Next == Send \/ Deliver

Spec == Init /\ [][Next]_<<sent, got>>
=============================================================================
