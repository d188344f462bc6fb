------------------------------ MODULE MCDataPath ------------------------------
(* One client, one or two tasks, and counters that end at three; a damaged *)
(* datagram may read as the last of them in MCDataPathWrap only.           *)
EXTENDS DataPath
=============================================================================
