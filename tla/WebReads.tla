------------------------------- MODULE WebReads ------------------------------
(* Reads through the web door (crates/ikigai-web: respond, read_resp,         *)
(* stream.rs, entity.rs) and an HTTP cache in front of it: the capability a   *)
(* request is given, the face it negotiates, and the ETag, Cache-Control and  *)
(* Vary the answer carries.  The cache is not this repository's: it keeps     *)
(* what it may, hands out without asking what is fresh, revalidates the rest, *)
(* and completes a broken download by its range (RFC 9110, RFC 9111).         *)
EXTENDS Naturals, Sequences, FiniteSets

CONSTANTS
    Doors,      \* each a door's configuration, the resource behind it, and the
                \* reads clients send it: ?as, Accept, credentials, Origin
    People,     \* credentials that name somebody
    Bearers,    \* credentials sent as Authorization
    Nil,
    Capacity, MaxVersion, MaxMoment      \* bounds: a cache's answers, changes, the clock

VARIABLES
    door,
    cache,      \* whose it is: "shared" or "private"
    moment,     \* the clock
    version,    \* of the resource
    deadline,   \* until when this version is valid, for one that expires
    copies      \* the answers it keeps

readVars == <<door, cache, moment, version, deadline, copies>>

-----------------------------------------------------------------------------
(* request_capability, shaped_by_credentials.                                 *)
Capability(d, r) ==
    [scope |-> IF d.pin # Nil THEN d.pin ELSE d.grants[r.creds],
     who |-> IF d.names /\ r.creds \in People THEN r.creds ELSE Nil]

Shaped(d, r) ==
    \/ Capability(d, r).who # Nil
    \/ /\ d.pin = Nil /\ r.creds # Nil
       /\ Capability(d, [r EXCEPT !.creds = Nil]) # Capability(d, r)

(* Faces::negotiate.  A range of Accept names a face, its type or anything:   *)
(* the most specific that matches a face gives it its quality.                *)
Named == 3
Anything == 1
Served(d) == {d.served[i] : i \in DOMAIN d.served}
Default(d) == IF d.default # Nil THEN d.default ELSE d.served[1]

Ranges(accept, f) == {i \in DOMAIN accept : f \in accept[i].of}
MatchOf(accept, f) ==
    accept[CHOOSE i \in Ranges(accept, f) : \A j \in Ranges(accept, f) :
              \/ accept[i].by > accept[j].by
              \/ accept[i].by = accept[j].by /\ i <= j]
Quality(accept, f) == IF Ranges(accept, f) = {} THEN 0 ELSE MatchOf(accept, f).q
Acceptable(d, accept) == {f \in Served(d) : Quality(accept, f) > 0}

Winner(d, accept) ==
    LET best == {f \in Acceptable(d, accept) :
                    \A g \in Served(d) : Quality(accept, f) >= Quality(accept, g)}
    IN  IF Default(d) \in best THEN Default(d)
        ELSE d.served[CHOOSE i \in DOMAIN d.served :
                         d.served[i] \in best /\ \A j \in 1 .. i - 1 : d.served[j] \notin best]

Tolerated(d, m) == m.by = Anything \/ (m.by < Named /\ d.default # Nil)

(* A resource that declares no faces gets the client's favourite by name.     *)
Favourite(accept) ==
    LET named == {i \in DOMAIN accept : accept[i].by = Named /\ accept[i].q > 0}
        best == {i \in named : \A j \in DOMAIN accept : accept[i].q >= accept[j].q}
    IN  IF best = {} THEN "default"
        ELSE CHOOSE f \in accept[CHOOSE i \in best : \A j \in best : i <= j].of : TRUE

Negotiated(d, r) ==
    CASE r.as # Nil -> IF Served(d) = {} \/ r.as \in Served(d) THEN r.as ELSE "refused"
      [] r.as = Nil /\ r.accept = << >> -> "default"
      [] r.as = Nil /\ r.accept # << >> /\ Served(d) = {} -> Favourite(r.accept)
      [] OTHER ->
            IF Acceptable(d, r.accept) = {} THEN "refused"
            ELSE LET f == Winner(d, r.accept)
                 IN  IF f = Default(d) /\ Tolerated(d, MatchOf(r.accept, f)) THEN "default" ELSE f

(* The resource's own answer: the face asked for, or the one it gives of its  *)
(* own accord, to whoever the capability says is asking.                      *)
Face(d, r) == IF Negotiated(d, r) = "default" THEN d.gives ELSE Negotiated(d, r)
View(d, r) == IF d.alike THEN Nil ELSE Capability(d, r)
Half(d, r) == <<View(d, r), version>>
Content(d, r) == [type |-> Face(d, r), bytes |-> <<Half(d, r), Half(d, r)>>]

-----------------------------------------------------------------------------
(* entity::open: an envelope asks for headers, and is refused whole for one   *)
(* the door does not take from it, or for a cookie on what may be cached.     *)
AsksFor(d) == {h \in {"cache-control"} : d.asked # Nil} \union {h \in {"set-cookie"} : d.cookie}
AcceptedOnly(d) == AsksFor(d) \subseteq d.accepts
Opened(d) == AsksFor(d) \subseteq d.accepts /\ (d.cookie => d.expiry = "always")

(* stream::settle: what is collected before it is sent, and what streams.  A  *)
(* replay that states its content id can be read from any offset.             *)
Settled(d) ==
    d.produces = "bytes" \/ AsksFor(d) # {} \/ (d.produces = "small" /\ ~d.states)
Ranged(d) == ~Settled(d) /\ d.produces \in {"small", "large"} /\ d.states

(* etag_from, validator_etag: over the type and the content.                  *)
BytesOnly(c) == c.bytes
TagOf(c) == c
ValidatorEtag(d, c) == IF Settled(d) \/ Ranged(d) THEN TagOf(c) ELSE Nil

(* cache_control_of, and what an endpoint's own Cache-Control becomes.        *)
SelfContained(d) == d.ownThread /\ d.verbs = {"Source"}
Ahead(d) == d.expiry = "at" /\ deadline > moment
Scope(d, r) == IF Shaped(d, r) THEN "private" ELSE "public"
Projected(d, r) ==
    CASE d.expiry = "always" -> {"no-store"}
      [] Ahead(d) /\ SelfContained(d) -> {Scope(d, r), "max-age"}
      [] OTHER -> {Scope(d, r), "no-cache"}

PrivateCacheControl(cc) ==
    LET stays == cc \ {"public"}
    IN  IF stays \intersect {"private", "no-store"} # {} THEN stays ELSE stays \union {"private"}
Asked(d, r) == IF Shaped(d, r) THEN PrivateCacheControl(d.asked) ELSE d.asked

CacheControl(d, r) ==
    CASE d.noStore /\ Shaped(d, r) -> {"private", "no-store"}
      [] ~(d.noStore /\ Shaped(d, r)) /\ d.asked # Nil -> Asked(d, r)
      [] OTHER -> Projected(d, r)
Until(d) == IF d.asked # Nil THEN moment + 1 ELSE deadline

(* read_vary, then apply_edge_policy.                                         *)
ReadVary(d, r) ==
    {h \in {"accept"} : r.as = Nil /\ Len(d.served) # 1}
    \union {h \in {"creds"} : d.pin = Nil \/ Capability(d, r).who # Nil}
Vary(d, r) == ReadVary(d, r) \union {h \in {"origin"} : d.cors # {}}
AllowOrigin(d, r) ==
    CASE r.origin \in d.cors -> r.origin
      [] r.origin # Nil /\ r.origin \notin d.cors /\ "*" \in d.cors ->
            IF d.withCredentials THEN r.origin ELSE "*"
      [] OTHER -> Nil

(* The answer to a read: refused by negotiation, denied by the resource,      *)
(* refused for its envelope, or its content and what is said about it.        *)
Status(d, r) ==
    IF Negotiated(d, r) = "refused" THEN 406
    ELSE IF Capability(d, r).scope = "nothing" THEN 403
    ELSE IF Opened(d) THEN 200 ELSE 500
Response(d, r) ==
    [read |-> r, content |-> Content(d, r), tag |-> ValidatorEtag(d, Content(d, r)), cookie |-> d.cookie,
     cc |-> CacheControl(d, r), until |-> Until(d), vary |-> Vary(d, r), allow |-> AllowOrigin(d, r)]

(* read_resp and stream::read: If-None-Match, and If-Range over a body that   *)
(* can be read from an offset.                                                *)
NotModified(a, tags) == a.tag # Nil /\ a.tag \in tags
PartialContent(d, a, tag) == Ranged(d) /\ a.tag = tag

-----------------------------------------------------------------------------
(* The cache.                                                                 *)
InFull(e) == e.content.bytes[2] # Nil
Selected(e, r) == e.read.as = r.as /\ \A h \in e.vary : e.read[h] = r[h]
Fresh(e) == "max-age" \in e.cc /\ {"no-cache", "no-store"} \intersect e.cc = {} /\ moment < e.until
HandedOut(e, r) == InFull(e) /\ Selected(e, r) /\ Fresh(e)
MayStore(r, cc) ==
    /\ "no-store" \notin cc
    /\ cache = "shared" => "private" \notin cc /\ (r.creds \in Bearers => "public" \in cc)

Keeps(r, e) ==
    LET others == {o \in copies : ~Selected(o, r)}
    IN  IF ~MayStore(r, e.cc) THEN copies' = others
        ELSE \E out \in SUBSET others :
                /\ Cardinality(out) = IF Cardinality(others) < Capacity THEN 0 ELSE 1
                /\ copies' = (others \ out) \union {e}

Halved(e) == [e EXCEPT !.content.bytes[2] = Nil]
Asks(r) == Status(door, r) = 200 /\ ~\E e \in copies : HandedOut(e, r)
Tags(r) == {e.tag : e \in {e \in copies : Selected(e, r) /\ InFull(e)}} \ {Nil}

(* A whole answer, whose download may break off.                              *)
Fetch(r) ==
    /\ Asks(r) /\ ~NotModified(Response(door, r), Tags(r))
    /\ \/ Keeps(r, Response(door, r))
       \/ Ranged(door) /\ Keeps(r, Halved(Response(door, r)))
    /\ UNCHANGED <<door, cache, moment, version, deadline>>

(* A 304: the stored answer of that tag is good, under the new headers.       *)
Revalidate(r) ==
    /\ Asks(r) /\ NotModified(Response(door, r), Tags(r))
    /\ \E e \in copies :
          /\ Selected(e, r) /\ InFull(e) /\ e.tag = Response(door, r).tag
          /\ Keeps(r, [Response(door, r) EXCEPT !.content = e.content, !.read = e.read])
    /\ UNCHANGED <<door, cache, moment, version, deadline>>

(* The rest of a download that broke off.                                     *)
Resume(r) ==
    /\ Asks(r)
    /\ \E e \in copies :
          /\ Selected(e, r) /\ ~InFull(e) /\ PartialContent(door, Response(door, r), e.tag)
          /\ Keeps(r, [Response(door, r) EXCEPT !.content.bytes[1] = e.content.bytes[1]])
    /\ UNCHANGED <<door, cache, moment, version, deadline>>

(* The resource changes: at any time, or, when only time can change it, once  *)
(* its deadline has passed.                                                   *)
Change ==
    /\ version < MaxVersion /\ version' = version + 1
    /\ door.written \/ ~Ahead(door)
    /\ deadline' = moment + door.life
    /\ UNCHANGED <<door, cache, moment, copies>>

ReadsTick ==
    /\ moment < MaxMoment /\ moment' = moment + 1
    /\ UNCHANGED <<door, cache, version, deadline, copies>>

ReadsInit ==
    /\ door \in Doors /\ cache \in {"shared", "private"}
    /\ moment = 0 /\ version = 0 /\ deadline = door.life /\ copies = {}

ReadsNext == Change \/ ReadsTick \/ \E r \in door.clients : Fetch(r) \/ Revalidate(r) \/ Resume(r)

ReadsSpec == ReadsInit /\ [][ReadsNext]_readVars

-----------------------------------------------------------------------------
ASSUME WebReadsAssumption ==
    /\ Capacity \in Nat \ {0} /\ MaxVersion \in Nat /\ MaxMoment \in Nat
    /\ \A d \in Doors :
          /\ d.served \in Seq(Served(d)) /\ d.life \in Nat
          /\ \A r \in d.clients :
                /\ DOMAIN r = {"as", "accept", "creds", "origin"}
                /\ r.accept \in Seq({r.accept[i] : i \in DOMAIN r.accept})
                /\ \A i \in DOMAIN r.accept : r.accept[i].by \in Anything .. Named /\ r.accept[i].q \in Nat
          /\ d.default \in Served(d) \union {Nil}
          (* One face declared is the one given; a declared default is kept.  *)
          /\ Len(d.served) = 1 => d.gives = d.served[1]
          /\ d.default # Nil => d.gives = d.default
          (* What declares only Source and hangs from its own thread alone is *)
          (* written by nobody.                                               *)
          /\ d.written => ~d.ownThread \/ d.verbs # {"Source"}
          (* Pinned and named at once, or with a cookie beside a              *)
          (* Cache-Control of its own, it does not hold: README.              *)
          /\ ~(d.names /\ d.pin # Nil)
          /\ d.cookie => d.asked = Nil

ReadsTypeOK ==
    /\ moment \in 0 .. MaxMoment /\ version \in 0 .. MaxVersion /\ deadline \in Nat
    /\ Cardinality(copies) <= Capacity
    /\ \A e \in copies : e.read \in door.clients /\ e.vary \subseteq {"accept", "creds", "origin"}

(* Whatever a cache hands out without asking, the door would answer that very *)
(* request with: the face it negotiates, made for its own capability, with    *)
(* the CORS answer for its origin, and current, unless the endpoint itself    *)
(* allowed it to age.  Nobody is handed an answer he would be denied.  (A     *)
(* client that accepts none of the faces may be handed the only one.)  An     *)
(* ETag stands for one content: a 304 confirms, and a range completes, only   *)
(* what a whole answer would hold.  And no cache holds a cookie, nor a shared *)
(* one what somebody's credentials earned him.                                *)
Of(d, c) == IF d.asked = Nil THEN c ELSE [type |-> c.type, views |-> {c.bytes[1][1], c.bytes[2][1]}]
AsIfAsked ==
    \A e \in copies : \A r \in door.clients :
        LET a == Response(door, r)
        IN  /\ HandedOut(e, r) /\ Status(door, r) # 406 =>
                  /\ Status(door, r) = 200 /\ e.allow = a.allow
                  /\ Of(door, e.content) = Of(door, a.content)
            /\ Status(door, r) = 200 /\ e.tag # Nil /\ e.tag = a.tag =>
                  /\ e.content.type = a.content.type
                  /\ e.content.bytes[1] = a.content.bytes[1]
                  /\ e.content.bytes[2] \in {Nil, a.content.bytes[2]}
            /\ ~e.cookie
            /\ cache = "shared" =>
                  Capability(door, e.read) = Capability(door, [e.read EXCEPT !.creds = Nil])
=============================================================================
