------------------------------- MODULE WireBody -------------------------------
(* A body on the wire (src/crates/ikigai-wire/src/stream.rs), the same on the *)
(* socket and on QUIC: chunks, then END, or an ABORT where the producer fails *)
(* or miscounts.                                                              *)
EXTENDS Naturals

CONSTANT NoLen  \* a body whose length is not declared

(* A body: the length it declares, the chunks its reader gives, and whether   *)
(* the reader then fails.                                                     *)
Body(S) == \A b \in S : b.len \in Nat \cup {NoLen} /\ b.gives \in Nat /\ b.fails \in BOOLEAN

(* The sender of body b, s chunks of it sent: whether the next chunk goes, and *)
(* the frame that ends it.  One past the declared length is not sent.         *)
Overruns(b, s) == s < b.gives /\ b.len # NoLen /\ s + 1 > b.len
Sends(b, s) == s < b.gives /\ ~Overruns(b, s)
EndAnyway(b, s) == "end"
LastFrame(b, s) ==
    IF Overruns(b, s) \/ b.fails \/ (b.len # NoLen /\ b.len # s) THEN "abort" ELSE "end"

(* BodyState::feed: what a frame is to the reader of a body that declared len *)
(* and has given s chunks.                                                    *)
Feed(len, s, kind) ==
    IF kind = "chunk" /\ (len = NoLen \/ s < len) THEN "chunk"
    ELSE IF kind = "end" /\ (len = NoLen \/ s = len) THEN "end"
    ELSE IF kind = "abort" THEN "abort" ELSE "broken"

(* A body is whole when its reader gave all it meant to, and as much as it    *)
(* declared.                                                                  *)
Whole(b, n) == ~b.fails /\ n = b.gives /\ b.len \in {NoLen, n}
=============================================================================
