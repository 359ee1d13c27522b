----------------------------- MODULE MCSniffer ------------------------------
(* Instances of Sniffer: two threads, one device file and one other file.  *)
EXTENDS Sniffer

CONSTANTS t1, t2, ctl, socket
=============================================================================
