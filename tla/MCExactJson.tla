---------------------------- MODULE MCExactJson ----------------------------
(***************************************************************************)
(* Every way to nest, share and knot three containers of up to two         *)
(* children, and one of three, with leaves and keys that each walk judges  *)
(* differently; limits of two levels, five nodes, four bytes, texts of     *)
(* two characters and numbers of two bits.                                 *)
(***************************************************************************)
EXTENDS ExactJson

MCObjects == {"top", "mid", "low", "word", "long", "odd"}

Scalar(kind, exact, size, weight) ==
    [kind |-> kind, exact |-> exact, size |-> size, weight |-> weight,
     children |-> <<>>, keys |-> <<>>]
List(exact, children) ==
    [kind |-> "list", exact |-> exact, size |-> 0, weight |-> 0,
     children |-> children, keys |-> <<>>]

Name(exact, size, weight) ==
    [kind |-> "text", exact |-> exact, size |-> size, weight |-> weight]

(* Last keys of a dict: one that all walks take, one of more bytes than    *)
(* characters, one too long, one of a subclass or without an encoding, one *)
(* too long of that sort, and one that is no text.                         *)
MCKeys ==
    {Name(TRUE, 0, 0), Name(TRUE, 2, 3), Name(TRUE, 3, 3), Name(FALSE, 1, 1),
     Name(FALSE, 3, 3), [kind |-> "other", exact |-> TRUE, size |-> 0, weight |-> 0]}

Dict(exact, children, key) ==
    [kind |-> "dict", exact |-> exact, size |-> 0, weight |-> 0, children |-> children,
     keys |-> [i \in DOMAIN children |->
                 IF i = Len(children) THEN key ELSE Name(TRUE, 1, 1)]]

Nested(objects, n) == UNION {[1 .. i -> objects] : i \in 0 .. n}

(* The leaves "long" and "odd".                                            *)
MCLeaves ==
    {<<Scalar("text", TRUE, 3, 3),   Scalar("text", FALSE, 1, 1)>>,
     <<Scalar("number", TRUE, 3, 1), Scalar("text", FALSE, 3, 3)>>,
     <<Scalar("text", TRUE, 2, 4),   Scalar("number", FALSE, 1, 1)>>,
     <<Scalar("null", TRUE, 0, 0),   Scalar("other", TRUE, 0, 0)>>}

MCHeaps ==
    {[o \in MCObjects |->
        CASE o = "top"  -> top
          [] o = "mid"  -> mid
          [] o = "low"  -> low
          [] o = "word" -> Scalar("text", TRUE, 1, 1)
          [] o = "long" -> leaves[1]
          [] o = "odd"  -> leaves[2]] :
        top \in {List(TRUE, s) : s \in Nested({"top", "mid", "low"}, 2)}
           \cup {List(TRUE, <<"word", "word", "word">>)}
           \cup {Dict(TRUE, s, Name(TRUE, 1, 1)) : s \in Nested({"mid", "word"}, 2)},
        mid \in {List(TRUE, s) : s \in Nested({"top", "low", "word", "odd"}, 2)}
           \cup {Dict(TRUE, s, k) : k \in MCKeys,
                    s \in {<<>>, <<"low">>, <<"word">>, <<"low", "word">>, <<"word", "low">>}}
           \cup {List(FALSE, s) : s \in {<<>>, <<"word">>, <<"top", "low">>}}
           \cup {Dict(FALSE, s, Name(TRUE, 1, 1)) : s \in {<<>>, <<"low">>, <<"word", "odd">>}},
        low \in {List(TRUE, s) : s \in Nested({"mid", "word", "long"}, 1)},
        leaves \in MCLeaves}
=============================================================================
