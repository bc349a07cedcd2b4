----------------------------- MODULE MCServices -----------------------------
(***************************************************************************)
(* The Telnet service and the object proxies, which do not interact: a       *)
(* behaviour is one of the first or one of the second, and the other stays   *)
(* in its initial state.                                                     *)
(***************************************************************************)
EXTENDS Telnet, ObjectProxy, TLC

VARIABLE which

Init == /\ which \in {"telnet", "proxies"}
        /\ TInit /\ OInit
        /\ which = "telnet" => kind = "polled"

Next == \/ which = "telnet" /\ TNext /\ UNCHANGED <<which, ovars>>
        \/ which = "proxies" /\ ONext /\ UNCHANGED <<which, tvars>>

Spec == Init /\ [][Next]_<<which, tvars, ovars>>

\* Nothing tells one address from the other.
MCSymmetry == Permutations(Addrs)

Csi(s) == <<"ESC", "[">> \o s

MCKeys ==
    {<<"x">>, <<"d">>, <<"q">>, <<"u">>, <<"CR">>, <<"BS">>, <<"TAB">>, <<"^C">>, <<"ESC">>,
     Csi(<<"A">>), Csi(<<"B">>), Csi(<<"C">>), Csi(<<"D">>), Csi(<<"2", "~">>), Csi(<<"3", "~">>),
     <<"IAC", "SB", "NAWS", "NUL", "P", "NUL", "P", "IAC", "SE">>}

MCCommandList ==
    <<[re |-> <<"x", ".">>, lines |-> {<<"x", "x">>, <<"x", "d">>}],
      [re |-> <<"x">>, lines |-> {<<"x">>}]>>

MCRegistrations ==
    {[dir |-> <<>>, cmd |-> 2, dst |-> "s1"],
     [dir |-> <<>>, cmd |-> 2, dst |-> "s2"],
     [dir |-> <<"d">>, cmd |-> 1, dst |-> "s1"]}
=============================================================================
