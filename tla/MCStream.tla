------------------------------ MODULE MCStream ------------------------------
(* Instances of Stream for TLC. *)
EXTENDS Stream

\* Lists of up to n passwords in which new ones appear in the order of
\* names; other lists differ from one of these by a renaming.
InOrder(names, n) ==
    {s \in SeqOf(ToSet(names), n) :
        \A i \in DOMAIN s, k \in 2 .. Len(names) :
            s[i] = names[k] => \E j \in 1 .. i - 1 : s[j] = names[k - 1]}

\* All short lists, and long ones with repeated, excluded ("d") and
\* rejected ("x") passwords and some whose checksum is wrong ("y").
SomeLists ==
    InOrder(<<"a", "b", "c", "e">>, 5)
    \cup {<<"d", "a", "d", "a">>, <<"a", "d", "b", "x", "c", "a", "x", "e">>,
          <<"a", "b", "c", "a", "e", "b">>, <<"a", "b", "c", "e", "f">>,
           <<"a", "y", "b", "y", "a", "c", "e">>, <<"y", "a", "b", "c", "y">>}

SomeWorkers == {[ids |-> {0}, total |-> 2], [ids |-> {0, 2}, total |-> 3]}
=============================================================================
