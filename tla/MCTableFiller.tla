----------------------------- MODULE MCTableFiller -----------------------------
EXTENDS TableFiller, SequencesExt

Arg(letter, n)     == [opt |-> letter, n |-> n, q |-> NoNumber]
Pair(letter, n, q) == [opt |-> letter, n |-> n, q |-> q]

(* The common options: a second port, as many queues as the pool is made   *)
(* for, shorter rings, a small pool, mbufs smaller than generate's packets *)
(* and a negative size, which the unsigned field makes a huge one.         *)
Common == {Arg("p", 2), Arg("q", 32), Arg("d", 512), Arg("m", 100), Arg("s", 256), Arg("s", -1),
           Arg("h", 0)}

(* Options of an application: twice with different values, over a limit,   *)
(* beyond 16 bits, and one that it does not have.                          *)
Own == [read            |-> {Arg("t", 1), Arg("t", 2), Arg("r", 0), Arg("z", 0)},
        loopback        |-> {Arg("t", 1), Arg("c", 64), Arg("b", 16)},
        generate        |-> {Arg("l", 300), Arg("l", 65600), Arg("l", 2000), Arg("r", 0)},
        receive         |-> {Arg("t", 0), Arg("t", 3), Arg("f", 49), Arg("f", 50), Arg("x", 2)},
        transmit        |-> {Pair("i", 1, 0), Pair("i", 2, 7), Arg("i", 1), Arg("f", 99), Arg("f", 100)},
        bonding         |-> {Arg("t", 1), Arg("t", 2)},
        metadata_viewer |-> {Arg("e", 0)},
        table_filler    |-> {Arg("t", 1), Arg("g", 1), Arg("k", 6), Arg("k", -1), Arg("n", -1)},
        hairpin         |-> {Arg("t", 1), Arg("p", 70000)},
        flagging        |-> {Arg("i", 1), Arg("i", 2)}]

(* What the table filler does: two rules or no limit, of a key it knows,   *)
(* or not; counted up, or at random; with failure_exit or not.             *)
Filling == {<<Arg("k", 3)>> \o rest :
               rest \in {<<>>, <<Arg("n", 2)>>}} \cup {<<Arg("k", 2), Arg("n", 2)>>}
Modes == {<<>>, <<Arg("i", 0)>>, <<Arg("e", 0)>>, <<Arg("i", 0), Arg("e", 0)>>}

MCCommandLines ==
    [a \in Applications |->
        BoundedSeq(Common \cup Own[a], IF a = "table_filler" THEN 2 ELSE 3)
        \cup IF a = "table_filler" THEN {x \o y : x \in Filling, y \in Modes} ELSE {}]

MCCapacities == {1, 3}
===============================================================================
