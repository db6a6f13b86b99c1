----------------------------- MODULE MCDnsServer -----------------------------
(***************************************************************************)
(* Instances of DnsServer for TLC.                                         *)
(***************************************************************************)
EXTENDS DnsServer

Plain == [qtypes |-> <<"A">>, opcode |-> 0, lowbits |-> FALSE,
          additional |-> FALSE, parses |-> TRUE, len |-> 32]

\* What a phone asks, and a resolver that sets AD.
MCQuestions ==
    {Plain,
     [Plain EXCEPT !.qtypes = <<"other">>],
     [Plain EXCEPT !.lowbits = TRUE],
     [Plain EXCEPT !.qtypes = <<"A", "other">>, !.opcode = 2]}
=============================================================================
