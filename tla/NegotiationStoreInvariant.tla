---------------------- MODULE NegotiationStoreInvariant ----------------------
(***************************************************************************)
(* The inductive invariant behind the safety of NegotiationStore, for      *)
(* datasets no TCK script is about.  It is about all that is stored of a   *)
(* record: the newest file, and the older ones.  What the newest says      *)
(* bounds what the older can say, and so what the loop makes of them.      *)
(***************************************************************************)
EXTENDS NegotiationStore, NegotiationInvariant

\* What is there of record x beside the newest: in its files, or with the loop.
Old(x) == left[x] \cup IF kept[x] = Absent THEN {} ELSE {neg[x]}

Versions(x) == Old(x) \cup {Newest(x)}

\* What a record can still be before its consumer accepts an offer.
Opening == {"requested", "offered", "terminated"}

\* The loop has an older record only while it is in a round.
StoreTypeOK ==
  /\ TypeOK
  /\ left \in [Pids -> SUBSET Records]
  /\ kept \in [Pids -> Records \cup {Absent}]
  /\ \A x \in Pids :
       /\ kept[x] # Absent => phase[x] # "idle"
       /\ left[x] # {} => Exists(x)
       /\ Exists(x) => \A r \in Versions(x) : r.peer \in Peers(x)

\* Consumer c has accepted an offer of p's, and nothing that is left of it takes
\* it to another provider record.
Bound(c, p) ==
  /\ Newest(c).st \in {"accepted", "terminated"} \cup Signed
  /\ \A r \in Versions(c) : r.peer = p

\* Consumer c holds an agreement, or did before it was terminated, and nothing
\* that is left of it makes it accept another.
Committed(c) ==
  \/ Newest(c).st \in Signed
  \/ Newest(c).st = "terminated" /\ \A r \in Old(c) : r.st \in {"agreed", "verified"}

\* Of the loop's outcomes: r is computed from n, and will be the newest.
StoreConsumerOutcome(c, n, r) ==
  \/ /\ n.st = "requested" /\ ~n.sent /\ r.st = "requested" /\ r.sent
     /\ r.peer \in PPids /\ Exists(r.peer) /\ Newest(r.peer).peer = c
  \/ /\ n.st \in {"offered", "accepted"} /\ r.st = "accepted" /\ r.peer = n.peer
     /\ n.st = "accepted" => r.sent
     /\ Newest(c).st \notin Signed
  \/ /\ n.st = "agreed" /\ r.st = "verified" /\ r.peer = n.peer
     /\ r.agr = n.agr /\ Newest(n.peer).st \in {"verified", "finalized"}

StoreProviderOutcome(p, n, r) ==
  /\ r.peer = n.peer
  /\ \/ n.st = "requested" /\ r.st \in {"offered", "terminated"}
     \/ n.st = "terminated" /\ r.st = "terminated" /\ r.sent
     \/ n.st = "offered" /\ r.st = "offered" /\ r.sent /\ Newest(p).st \in Opening
     \/ n.st = "accepted" /\ r.st = "agreed" /\ r.agr \in Agreements /\ r.agr.by = p
     \/ /\ n.st = "agreed" /\ r.st = "agreed" /\ r.sent /\ r.agr = n.agr
        /\ Newest(p).st = "agreed"
     \/ /\ n.st = "verified" /\ r.st = "finalized"
        /\ r.agr = n.agr /\ Newest(n.peer).st = "finalized"

StoreOutcome(x) ==
  /\ x \in CPids => StoreConsumerOutcome(x, neg[x], result[x])
  /\ x \in PPids => StoreProviderOutcome(x, neg[x], result[x])

StoreOutcomeInv ==
  \A x \in Pids : result[x] # Absent => phase[x] = "done" /\ StoreOutcome(x)

\* Every version of a consumer's record knows its provider record from the
\* answer to the request on, and an agreement in it is one of that record's,
\* which holds one, and is not behind.
ConsumerVersionInv ==
  \A c \in CPids : Exists(c) => \A r \in Versions(c) :
    /\ r.st \in {"requested", "terminated"} \/ r.peer # NoPid
    /\ r.st = "requested" => (r.sent <=> r.peer # NoPid)
    /\ r.st = "terminated" => r.sent
    /\ r.peer # NoPid => Exists(r.peer) /\ Newest(r.peer).peer = c
    /\ r.st \in Signed =>
         /\ r.agr \in Agreements /\ r.agr.by = r.peer
         /\ Newest(r.peer).st \in Signed
    /\ r.st \in {"verified", "finalized"} =>
         Newest(r.peer).st \in {"verified", "finalized"}

\* The older versions have the newest one's provider record, but those of a
\* request have none; they are not ahead of an offer or an acceptance, and do
\* not lead out of a finalization, or back before an agreement.
ConsumerOldInv ==
  \A c \in CPids : Exists(c) => \A r \in Old(c) :
    /\ r.peer = IF Newest(c).st = "requested" THEN NoPid ELSE Newest(c).peer
    /\ Newest(c).st = "offered" => r.st = "requested"
    /\ Newest(c).st = "accepted" => r.st \notin Signed
    /\ Newest(c).st = "terminated" => \A s \in Old(c) : s = r
    /\ Newest(c).st \in Signed => r.st \in {"accepted", "terminated"} \cup Signed
    /\ Newest(c).st = "finalized" => r.st = "verified"

\* Every version of a provider's record is for the same consumer, and an
\* agreement in it is its own.
ProviderVersionInv ==
  \A p \in PPids : Exists(p) => \A r \in Versions(p) :
    /\ r.peer = Newest(p).peer
    /\ r.st \in Signed => r.agr \in Agreements /\ r.agr.by = p

\* How far back the older versions reach: an event leaves the state it was
\* accepted in, at most.
ProviderOldInv ==
  \A p \in PPids : Exists(p) => \A r \in Old(p) :
    /\ Newest(p).st \in Opening => r.st \in Opening
    /\ Newest(p).st = "accepted" => r.st = "offered"
    /\ Newest(p).st = "agreed" => r.st \in {"offered", "accepted", "agreed"}
    /\ Newest(p).st \in {"verified", "finalized"} => r.st \in Signed

\* A provider's record past the offer is the one its consumer accepted.
ProviderNewestInv ==
  \A p \in PPids : Exists(p) =>
    LET c == Newest(p).peer
    IN  /\ Exists(c)
        /\ Newest(p).st \in {"accepted"} \cup Signed => Bound(c, p)
        /\ Newest(p).st \in {"verified", "finalized"} => Committed(c)
        /\ Newest(p).st = "finalized" => Newest(c).st = "finalized"

\* What a message says still holds when it arrives, however late.
StillTrue(m) ==
  /\ m.kind \in {"request", "accepted", "verification"} <=> m.from \in CPids
  /\ m.kind # "counter"
  /\ m.from \in PPids => m.to = Newest(m.from).peer
  /\ m.kind = "accepted" => Bound(m.from, m.to)
  /\ m.kind = "verification" =>
       /\ Bound(m.from, m.to)
       /\ Committed(m.from)
       /\ Newest(m.to).st \in Signed
  /\ m.kind = "agreement" =>
       Newest(m.from).st \in Signed /\ m.agr \in Agreements /\ m.agr.by = m.from
  /\ m.kind = "finalized" => Newest(m.from).st \in {"verified", "finalized"}

StoreMessageInv == \A m \in net : StillTrue(m)

StoreInv ==
  /\ StoreTypeOK
  /\ WaitInv
  /\ StoreOutcomeInv
  /\ ConsumerVersionInv
  /\ ConsumerOldInv
  /\ ProviderVersionInv
  /\ ProviderOldInv
  /\ ProviderNewestInv
  /\ StoreMessageInv
==============================================================================
