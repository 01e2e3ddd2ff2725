----------------------------- MODULE MCDownloadFiles -----------------------------
(* Instances of DownloadFiles for TLC: versions of one and of two chunks. *)
EXTENDS DownloadFiles
CONSTANTS m1, m2
MCSize(v) == v
MCPosts ==
  LET Post(a, b) == [m \in Media |-> IF m = m1 THEN a ELSE b]
  IN  {Post("plain", "plain"), Post("remuxed", "plain"), Post("remuxed", "stream"), Post("stream", "remuxed")}
==================================================================================
