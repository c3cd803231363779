---------------------------- MODULE MCCollector ----------------------------
(* The two identities of one hybrid torrent, one of which is announced.    *)
EXTENDS Collector

MCJobs == {"v1", "v2"}
MCSame == [j \in MCJobs |-> MCJobs]
MCAnnounced == {"v2"}
=============================================================================
