------------------------------- MODULE MCRssCtl -------------------------------
EXTENDS RssCtl

Conf(ifc, key, lo, hi) ==
    [ifc |-> ifc, hash_type |-> 1, hash_key |-> key, input_conf |-> 5,
     queue_min |-> lo, queue_max |-> hi]

Line(confs, rsts, edits) ==
    [rss_conf |-> confs, reta_rst |-> rsts, reta_edit |-> edits, dump |-> FALSE]

MCRst(ch, v)     == {[ifc |-> ch, value |-> v]}
MCEdit(ch, i, q) == {[ifc |-> ch, idx |-> i, queue |-> q]}

(* All channels and one, a key that is too long, ranges shorter than the   *)
(* table, of one queue, upside down and left open, a channel that does not *)
(* exist, all options at once, and none.                                   *)
MCCommands ==
    {Line({Conf(All, 27, 1, 2)}, {}, {}),
     [Line({Conf(1, 9, 2, 2)}, MCRst(0, 2), MCEdit(0, 1, 1)) EXCEPT !.dump = TRUE],
     Line({Conf(0, 6, 2, 1)}, {}, MCEdit(0, 2, 1)),
     Line({Conf(0, 1, None, 1)}, {}, {}),
     Line({Conf(2, 1, 1, 2)}, {}, {}),
     Line({}, MCRst(1, 2), {}),
     Line({}, {}, {})}
===============================================================================
