---------------------------- MODULE MCAppLifecycle ----------------------------
EXTENDS AppLifecycle

(* Two ports of one queue, one port of two, and more workers than queues.  *)
MCSettings == [ports : 1 .. 2, queues_per_port : 1 .. 2] \
              {[ports |-> 2, queues_per_port |-> 2]}

MCApps == {read, loopback, generate, receive, transmit, bonding, metadata_viewer,
           minimal_read, minimal_generate, flagging, table_filler}
===============================================================================
