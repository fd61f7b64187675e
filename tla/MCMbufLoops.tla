----------------------------- MODULE MCMbufLoops -----------------------------
EXTENDS MbufLoops

(* Two workers, so that the pool and the flag are shared.                  *)
MCLcores == {0, 1}

Setup(apps, size, descr) ==
    [app : apps, mempool_size : {size}, descriptors : {descr}, burst_size : {2}]

(* Pools that run dry with rings as long as a burst and shorter than that, *)
(* and a pool by the formula.                                              *)
MCSetups == Setup({"read", "receive", "transmit"}, 5, 2) \cup Setup({"generate"}, 4, 2)
              \cup Setup({"bonding", "loopback"}, 4, 1)
              \cup Setup({"generate", "transmit"}, 10, 1)

MCLoopback == Setup({"loopback"}, 5, 2)
===============================================================================
