------------------------------ MODULE WebWrites ------------------------------
(* Writes through the web door (crates/ikigai-web/src/lib.rs, respond): PUT   *)
(* and POST sink a document, PATCH reads it, merges and sinks it, DELETE      *)
(* removes it.  A write that states a precondition is preceded by a read of   *)
(* the resource it is checked against; a DELETE that succeeded is remembered, *)
(* so that its repeat is answered as it was.  Each read and write is a        *)
(* request of the kernel of its own, any of which may fail; other requests    *)
(* run in between, and the client may hang up.                                *)
EXTENDS Naturals, FiniteSets

CONSTANTS
    Clients,    \* the requests under way at a time
    Urls,    \* what a request names: a path, and the arguments of its query
    Fields, Values,         \* a document's, as JSON Merge Patch sees it
    Bodies, Patches,        \* what clients PUT and PATCH
    Headers,                \* their If-Match and If-None-Match, as pairs
    Methods,
    Null, NoDoc, Never,     \* a patch's null; no document; no time
    TOMBSTONE_TTL,
    MaxTick                 \* bound on the clock

Docs == UNION {[S -> Values] : S \in SUBSET Fields}
Condition == [kind : {"absent", "star", "list"}, tags : SUBSET Docs]

ASSUME WebWritesAssumption ==
    /\ Bodies \subseteq Docs
    /\ Patches \subseteq UNION {[S -> Values \union {Null}] : S \in SUBSET Fields}
    /\ Headers \subseteq Condition \X Condition
    /\ Methods \subseteq {"PUT", "PATCH", "DELETE"}
    /\ Null \notin Values /\ NoDoc \notin Docs /\ Never \notin Nat
    /\ TOMBSTONE_TTL \in Nat \ {0} /\ MaxTick \in Nat

VARIABLES
    tick,       \* the clock
    doc,        \* each target's document
    writes,     \* each request and where it is
    was,        \* the documents its target has had since it came, when it reads one
    tombs,      \* tombstones: when the DELETE of each was remembered
    erased,     \* when a DELETE of each target last took effect
    toldGone    \* when one was last answered that it had

writeVars == <<tick, doc, writes, was, tombs, erased, toldGone>>
deletes == <<tombs, erased, toldGone>>

NoWrite == [at |-> "idle"]

WritesInit ==
    /\ tick = 0
    /\ doc \in [Urls -> {NoDoc} \union Bodies]
    /\ writes = [c \in Clients |-> NoWrite] /\ was = [c \in Clients |-> {}]
    /\ tombs = [k \in {} |-> 0]
    /\ erased = [k \in Urls |-> Never] /\ toldGone = [k \in Urls |-> Never]

-----------------------------------------------------------------------------
(* RFC 7386: a patch's fields replace the document's, a null removes one.     *)
MergeOver(d, p) == [f \in DOMAIN d \union DOMAIN p |-> IF f \in DOMAIN p THEN p[f] ELSE d[f]]
Merge(d, p) ==
    LET remaining == {f \in DOMAIN d \union DOMAIN p : f \in DOMAIN p => p[f] # Null}
    IN  [f \in remaining |-> IF f \in DOMAIN p THEN p[f] ELSE d[f]]

(* The preconditions, judged against a state of the resource.  An ETag is the *)
(* content's own.                                                             *)
Names(h, state) == state # NoDoc /\ (h.kind = "star" \/ state \in h.tags)
IfMatch(h, state) == h.kind = "absent" \/ Names(h, state)
IfNoneMatch(h, state) == h.kind = "absent" \/ ~Names(h, state)
Conditional(r) == r.im.kind # "absent" \/ r.inm.kind # "absent"
Holds(r, state) == IfMatch(r.im, state) /\ IfNoneMatch(r.inm, state)

Goes(c, stage) == writes' = [writes EXCEPT ![c].at = stage]
Replied(c) == writes' = [writes EXCEPT ![c] = NoWrite]

(* The target's document changes: every request that reads it has seen it so. *)
Watched(r) == Conditional(r) \/ r.method = "PATCH"
Becomes(k, d) ==
    /\ doc' = [doc EXCEPT ![k] = d]
    /\ was' = [c \in Clients |->
                  IF writes[c] # NoWrite /\ Watched(writes[c]) /\ writes[c].target = k
                  THEN was[c] \union {d} ELSE was[c]]

-----------------------------------------------------------------------------
(* A request comes; with a precondition, the resource is read first.          *)
FirstStep(r) == IF r.method = "PATCH" THEN "read" ELSE "run"

Arrive(c, r) ==
    /\ writes[c] = NoWrite
    /\ writes' = [writes EXCEPT ![c] =
                     [at |-> IF Conditional(r) THEN "check" ELSE FirstStep(r), method |-> r.method,
                      target |-> r.target, body |-> r.body, im |-> r.im, inm |-> r.inm]]
    /\ was' = [was EXCEPT ![c] = IF Watched(r) THEN {doc[r.target]} ELSE {}]
    /\ UNCHANGED <<tick, doc, deletes>>

(* check_write_precondition: only an answer that says the resource is absent  *)
(* means it is; a read that fails otherwise is the request's answer.          *)
ReadAnyhow(k) == {doc[k], NoDoc}
Read(k) == {doc[k]}

CheckPrecondition(c) ==
    /\ writes[c].at = "check"
    /\ \/ \E state \in Read(writes[c].target) : Holds(writes[c], state) /\ Goes(c, FirstStep(writes[c]))
       \/ Replied(c)
    /\ UNCHANGED <<tick, doc, was, deletes>>

(* The write itself: a Sink, which may be refused or fail.                    *)
Put(c) ==
    /\ writes[c].at = "run" /\ writes[c].method = "PUT"
    /\ Becomes(writes[c].target, writes[c].body) \/ UNCHANGED <<doc, was>>
    /\ Replied(c)
    /\ UNCHANGED <<tick, deletes>>

(* apply_patch: the current document, absent or not to be read, answers; what *)
(* it becomes is worked out from what was read.                               *)
OrEmpty(d) == IF d = NoDoc THEN {[f \in {} |-> 0]} ELSE {d}
Present(d) == {d} \ {NoDoc}

PatchRead(c) ==
    /\ writes[c].at = "read"
    /\ \/ \E d \in Present(doc[writes[c].target]) :
             writes' = [writes EXCEPT ![c].at = "sink", ![c].body = Merge(d, @)]
       \/ Replied(c)
    /\ UNCHANGED <<tick, doc, was, deletes>>

PatchSink(c) ==
    /\ writes[c].at = "sink"
    /\ Becomes(writes[c].target, writes[c].body) \/ UNCHANGED <<doc, was>>
    /\ Replied(c)
    /\ UNCHANGED <<tick, deletes>>

(* A DELETE: absent, it asks the tombstones; done, it leaves one, unless the  *)
(* answer could not be gathered.                                              *)
Erase(k) == Becomes(k, NoDoc) /\ erased' = [erased EXCEPT ![k] = tick]

Delete(c) ==
    /\ writes[c].at = "run" /\ writes[c].method = "DELETE"
    /\ \/ doc[writes[c].target] = NoDoc /\ Goes(c, "gone") /\ UNCHANGED <<doc, was, erased>>
       \/ doc[writes[c].target] # NoDoc /\ Erase(writes[c].target) /\ (Goes(c, "record") \/ Replied(c))
       \/ Replied(c) /\ UNCHANGED <<doc, was, erased>>
    /\ UNCHANGED <<tick, tombs, toldGone>>

(* tombstone_key, record_tombstone, tombstoned.                               *)
PathOnly(k) == CHOOSE l \in Urls : l[1] = k[1]
Key(k) == k
Lasts(k) == tick - tombs[k] < TOMBSTONE_TTL
LiveTombs == {k \in DOMAIN tombs : Lasts(k)}

RecordTombstone(c) ==
    /\ writes[c].at = "record"
    /\ LET k == Key(writes[c].target)
       IN  tombs' = [l \in LiveTombs \union {k} |-> IF l = k THEN tick ELSE tombs[l]]
    /\ toldGone' = [toldGone EXCEPT ![writes[c].target] = tick]
    /\ Replied(c)
    /\ UNCHANGED <<tick, doc, was, erased>>

Tombstoned(k) == k \in DOMAIN tombs /\ Lasts(k)
(* The repeat's answer: 204 when it is known, else 404.                       *)
Gone(c) ==
    /\ writes[c].at = "gone"
    /\ LET k == Key(writes[c].target)
       IN  /\ Goes(c, IF Tombstoned(k) THEN "204" ELSE "404")
           /\ tombs' = [l \in {l \in DOMAIN tombs : l = k => Lasts(l)} |-> tombs[l]]
    /\ UNCHANGED <<tick, doc, was, erased, toldGone>>

Told(c) ==
    /\ writes[c].at \in {"204", "404"} /\ Replied(c)
    /\ UNCHANGED <<tick, doc, was, deletes>>

(* The client hangs up: its request is dropped where it waits, the kernel's   *)
(* part done or not.                                                          *)
WriteDropped(c) ==
    /\ writes[c].at \in {"check", "read", "run", "sink"}
    /\ \/ UNCHANGED <<doc, was, erased>>
       \/ /\ writes[c].at = "sink" \/ (writes[c].at = "run" /\ writes[c].method = "PUT")
          /\ Becomes(writes[c].target, writes[c].body) /\ UNCHANGED erased
       \/ /\ writes[c].at = "run" /\ writes[c].method = "DELETE"
          /\ doc[writes[c].target] # NoDoc /\ Erase(writes[c].target)
    /\ Replied(c)
    /\ UNCHANGED <<tick, tombs, toldGone>>

WritesTick ==
    /\ tick < MaxTick /\ tick' = tick + 1
    /\ UNCHANGED <<doc, writes, was, deletes>>

WriteRequests ==
    {[method |-> m, target |-> k, body |-> b, im |-> h[1], inm |-> h[2]] :
        m \in Methods, k \in Urls, b \in Bodies \union Patches, h \in Headers}
Sent(r) ==
    /\ r.method = "PUT" => r.body \in Bodies
    /\ r.method = "PATCH" => r.body \in Patches
    /\ r.method = "DELETE" => r.body = CHOOSE b \in Bodies : TRUE

Serve(c) ==
    \/ CheckPrecondition(c) \/ Put(c) \/ PatchRead(c) \/ PatchSink(c)
    \/ Delete(c) \/ RecordTombstone(c) \/ Gone(c) \/ Told(c)

WritesNext ==
    \/ \E c \in Clients : Serve(c) \/ WriteDropped(c) \/ \E r \in WriteRequests : Sent(r) /\ Arrive(c, r)
    \/ WritesTick

WritesSpec == WritesInit /\ [][WritesNext]_writeVars

-----------------------------------------------------------------------------
(* No document ever holds a patch's null.                                     *)
WritesTypeOK ==
    /\ tick \in 0 .. MaxTick
    /\ \A k \in Urls : doc[k] \in {NoDoc} \union Docs
    /\ \A c \in Clients :
          /\ writes[c].at \in {"idle", "check", "run", "read", "sink", "record", "gone", "204", "404"}
          /\ writes[c].at # "idle" => writes[c].target \in Urls
    /\ \A k \in DOMAIN tombs : k \in Urls /\ tombs[k] <= tick

(* The steps in which request c itself changes its target.                    *)
Commits(c) == writes[c].at \in {"run", "sink"} /\ writes'[c] # writes[c] /\ doc' # doc

Patched(old, p, new) ==
    /\ \A f \in DOMAIN p : IF p[f] = Null THEN f \notin DOMAIN new ELSE f \in DOMAIN new /\ new[f] = p[f]
    /\ \A f \in Fields \ DOMAIN p : /\ f \in DOMAIN old <=> f \in DOMAIN new
                                  /\ f \in DOMAIN old => old[f] = new[f]

(* A write that states a precondition changes the resource only if it held of *)
(* a state the resource really had while the request was under way: neither a *)
(* store that was briefly out of reach nor another resource's state will do.  *)
(* And a PATCH writes a document the resource really was meanwhile, with the  *)
(* patch's fields and no others changed, and never makes one where none was.  *)
WritesOnWhatWas ==
    [][\A c \in Clients : Commits(c) =>
          /\ Conditional(writes[c]) => \E state \in was[c] : Holds(writes[c], state)
          /\ writes[c].at = "sink" =>
                \E old \in was[c] \ {NoDoc}, p \in Patches : Patched(old, p, doc'[writes[c].target])]_writeVars

(* "A repeat of a delete that succeeded returns 204, while one that never     *)
(* existed is 404": for the very same path and arguments, and for the         *)
(* tombstone's lifetime.                                                      *)
Recent(when) == when # Never /\ tick - when < TOMBSTONE_TTL
RepeatsTold ==
    [][\A c \in Clients : writes[c].at = "gone" /\ writes'[c].at \in {"204", "404"} =>
          (writes'[c].at = "204" <=> Recent(toldGone[writes[c].target]))]_writeVars

(* "A lost-update guard": a write whose If-Match names the document's ETag    *)
(* overwrites that document.                                                  *)
(* It does not hold: README, Disagreements.                                   *)
LostUpdateGuard ==
    [][\A c \in Clients : Commits(c) /\ writes[c].im.kind = "list" =>
          doc[writes[c].target] \in writes[c].im.tags]_writeVars

(* "DELETE is idempotent": of two DELETEs of which the first removed the      *)
(* resource, the second is answered as if it had, whoever hung up.            *)
(* It does not hold: README, Disagreements.                                   *)
DeleteIdempotent ==
    [][\A c \in Clients : writes[c].at = "gone" /\ writes'[c].at = "404" =>
          ~Recent(erased[writes[c].target])]_writeVars
=============================================================================
