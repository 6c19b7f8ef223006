---------------------------- MODULE MCForwarder ----------------------------
(* Small instances of Forwarder for TLC. *)
EXTENDS Forwarder, TLC

CONSTANTS p1, p2, p3, c1, c2

\* p1 is a text and p2 a photo of the same channel, p3 a post of another one
\* that the filters reject.
MCPosts3 == {p1, p2, p3}
MCChannelOf3 == p1 :> c1 @@ p2 :> c1 @@ p3 :> c2
MCClass3 == p1 :> "text" @@ p2 :> "photo" @@ p3 :> "rejected"

\* Two posts of two channels, a photo and one that is nothing but its channel's
\* signature.
MCPosts2 == {p1, p2}
MCChannelOf2 == p1 :> c1 @@ p2 :> c2
MCClass2 == p1 :> "photo" @@ p2 :> "empty"
============================================================================
