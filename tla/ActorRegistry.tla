--------------------------- MODULE ActorRegistry ---------------------------
(***************************************************************************)
(* The people of a card: owners, the names they are known by, and the      *)
(* candidates that wait for the user. Captures discover people in the      *)
(* registry in memory; the user's corrections change it at once. Both are  *)
(* written afterwards, as the rows listed when the write began, and no     *)
(* write waits for another. An alias row is keyed by the owner that first  *)
(* had it.                                                                 *)
(***************************************************************************)
EXTENDS Naturals, Sequences

CONSTANTS Names, FreshOwners,      \* ids that are not derived from a name
          NoOwner,
          MaxDiscoveries, MaxCorrections, MaxRegistryFaults

VARIABLES registry, trail,
          storedRegistry,
          inflight,          \* on their way: of a capture, of corrections, of undos
          unsaved,         \* people were discovered that no write has taken
          behind,          \* history: a write failed, was overtaken, or was fallen into
          corrected,       \* history: aliases the user gave to another owner
          adrift,          \* history: names a row had and the list of its owner not
          discoveries, registryFaults
registryVars == <<registry, trail, storedRegistry, inflight, unsaved, behind, corrected, adrift, discoveries, registryFaults>>

OwnerIds == Names \cup FreshOwners     \* actorOwnerId(name), provisional and split ids
Kinds == {"confirmed", "unsure"}       \* confirmed: true, or false / a low confidence
People == [name : Names, aliases : SUBSET Names, status : {"pending", "confirmed", "merged"}]
AliasRows == [key : OwnerIds \X Names, owner : OwnerIds, name : Names, status : {"pending", "confirmed"}]
Candidates == [id : {"owner", "name"} \X OwnerIds, name : Names, aliases : SUBSET Names, ref : OwnerIds \cup {NoOwner}]
Registries == [owners : [OwnerIds -> People \cup {NoOwner}], aliases : SUBSET AliasRows, candidates : SUBSET Candidates]
Writes == [kind : {"capture", "correction", "undo"}, audit : 0..MaxCorrections, rows : Registries,
           old : BOOLEAN]      \* the registry was corrected after the rows were listed
EmptyRegistry == [owners |-> [o \in OwnerIds |-> NoOwner], aliases |-> {}, candidates |-> {}]

\* No owner is told from every owner.
ASSUME RegistryShape == /\ NoOwner \notin OwnerIds \cup People
                        /\ {MaxDiscoveries, MaxCorrections} \subseteq Nat

ExistingOwners(r) == {o \in OwnerIds : r.owners[o] # NoOwner}
Unmerged(r) == {o \in ExistingOwners(r) : r.owners[o].status # "merged"}
KnownAs(r, n) == {o \in Unmerged(r) : n = r.owners[o].name \/ n \in r.owners[o].aliases}
Namesakes(r, n) == {o \in Unmerged(r) : r.owners[o].name = n}

OneRowAKey(r) == \A a, b \in r.aliases : a.key = b.key => a = b
RegistryTypeOK ==
    /\ {registry, storedRegistry} \subseteq Registries /\ inflight \subseteq Writes
    /\ OneRowAKey(registry)
    /\ {unsaved, behind} \subseteq BOOLEAN /\ {corrected, adrift} \subseteq SUBSET Names
    /\ discoveries \in 0..MaxDiscoveries /\ Len(trail) \in 0..MaxCorrections

-----------------------------------------------------------------------------
(* The registry's operations, as functions of the registry. *)
Sole(S) == \E o \in S : S = {o}
TheOne(S) == CHOOSE o \in S : TRUE

\* Mutant: a name moves to whoever is met with it.
addAliasesTaking(r, o, names, status) ==
    [r EXCEPT !.aliases = {a \in @ : a.name \notin names}
                          \cup {[key |-> <<o, n>>, owner |-> o, name |-> n, status |-> status] : n \in names},
              !.owners[o].aliases = @ \cup names]
SureAs(r, o, n, status) == IF \E a \in r.aliases : a.key = <<o, n>> /\ a.status = "confirmed" THEN "confirmed" ELSE status
addAliases(r, o, names, status) ==
    [r EXCEPT !.aliases = {a \in @ : \A n \in names : a.key # <<o, n>>}
                          \cup {[key |-> <<o, n>>, owner |-> o, name |-> n, status |-> SureAs(r, o, n, status)] : n \in names},
              !.owners[o].aliases = @ \cup names]

Named(r, n) == {a.owner : a \in {b \in r.aliases : b.name = n /\ b.status = "confirmed"}}
Resolvable(r, n) == {o \in Named(r, n) : r.owners[o] # NoOwner /\ r.owners[o].status = "confirmed"}
resolveMention(r, n) == IF Sole(Resolvable(r, n)) THEN TheOne(Resolvable(r, n)) ELSE NoOwner

CandidateOf(r, n, ref) == {c \in r.candidates : IF ref # NoOwner THEN c.ref = ref ELSE c.name = n /\ c.ref = NoOwner}
upsertPendingCandidate(r, n, names, ref) ==
    LET old == CandidateOf(r, n, ref)
        new == IF old = {} THEN [id |-> IF ref # NoOwner THEN <<"owner", ref>> ELSE <<"name", n>>, name |-> n, aliases |-> names, ref |-> ref]
               ELSE [TheOne(old) EXCEPT !.aliases = @ \cup names]
    IN  [r EXCEPT !.candidates = {c \in @ : c.id # new.id} \cup {new}]
WithoutCandidates(r, done) == [r EXCEPT !.candidates = @ \ done]

(* A mention of an owner that is there already: a trusted one confirms it,  *)
(* an owner that still waits is a candidate.                                *)
StatusAfter(r, o, kind) == IF kind = "confirmed" THEN "confirmed" ELSE r.owners[o].status
NamesHeard(r, o, n, names, kind) ==
    addAliases([r EXCEPT !.owners[o].status = StatusAfter(r, o, kind)], o, {n} \cup names, StatusAfter(r, o, kind))
Recognized(r, o, n, names, kind, done) ==
    IF StatusAfter(r, o, kind) = "pending" THEN upsertPendingCandidate(NamesHeard(r, o, n, names, kind), n, names, o)
    ELSE IF r.owners[o].status = "pending" THEN WithoutCandidates(NamesHeard(r, o, n, names, kind), done)
    ELSE NamesHeard(r, o, n, names, kind)
\* One that is sure of the name, among several known by it.
Addressed(r, o, n, names, kind) ==
    WithoutCandidates(NamesHeard(r, o, n, names, "confirmed"),
           {c \in r.candidates : kind = "confirmed" /\ (c.ref = o \/ c.name = r.owners[o].name)})
CreatedOwner(r, id, n, names, kind) ==
    LET status == IF kind = "confirmed" THEN "confirmed" ELSE "pending"
        new == addAliases([r EXCEPT !.owners[id] = [name |-> n, aliases |-> {n}, status |-> status]], id, {n} \cup names, status)
    IN  IF status = "pending" THEN upsertPendingCandidate(new, n, names, id) ELSE new

(* Whom a mention is for: the only one known by the name; the only one that *)
(* is sure of it; nobody when several are; the only one that waits with it; *)
(* the only one that bears it, if that or the mention is in doubt; nobody   *)
(* when several bear it; else a new owner.                                  *)
OfOwner(r, o) == {c \in r.candidates : c.ref = o}
Waiting(r, n) == {o \in KnownAs(r, n) : r.owners[o].status = "pending"}
Borne(r, n, kind) == {o \in Namesakes(r, n) : Sole(Namesakes(r, n)) /\ (r.owners[o].status = "pending" \/ kind = "unsure")}
discover(r, id, n, names, kind) ==
    LET known == TheOne(KnownAs(r, n))
        sure == TheOne(Resolvable(r, n))
        waiting == TheOne(Waiting(r, n))
        bearer == TheOne(Borne(r, n, kind))
    IN  IF Sole(KnownAs(r, n)) THEN Recognized(r, known, n, names, kind, OfOwner(r, known) \cup {c \in r.candidates : c.name = n})
        ELSE IF Sole(Resolvable(r, n)) THEN Addressed(r, sure, n, names, kind)
        ELSE IF Resolvable(r, n) # {} THEN r
        ELSE IF Sole(Waiting(r, n)) THEN Recognized(r, waiting, n, names, kind, OfOwner(r, waiting))
        ELSE IF Borne(r, n, kind) # {}
             THEN IF r.owners[bearer].status = "pending" THEN Recognized(r, bearer, n, names, kind, OfOwner(r, bearer))
                  ELSE upsertPendingCandidate(NamesHeard(r, bearer, n, names, kind), n, names, bearer)
        ELSE IF Namesakes(r, n) # {} /\ ~Sole(Namesakes(r, n)) THEN upsertPendingCandidate(r, n, names, NoOwner)
        ELSE CreatedOwner(r, id, n, names, kind)
Discoverer(r, id, n, kind) ==
    IF Sole(KnownAs(r, n)) THEN TheOne(KnownAs(r, n))
    ELSE IF Resolvable(r, n) # {} THEN resolveMention(r, n)
    ELSE IF Sole(Waiting(r, n)) THEN TheOne(Waiting(r, n))
    ELSE IF Borne(r, n, kind) # {} THEN TheOne(Borne(r, n, kind))
    ELSE IF Namesakes(r, n) # {} /\ ~Sole(Namesakes(r, n)) THEN NoOwner
    ELSE id

-----------------------------------------------------------------------------
RegistryInit ==
    /\ registry = EmptyRegistry /\ storedRegistry = EmptyRegistry
    /\ trail = << >> /\ inflight = {}
    /\ unsaved = FALSE /\ behind = FALSE /\ corrected = {} /\ adrift = {}
    /\ discoveries = 0 /\ registryFaults = 0

(* The list of an owner loses a name that a row keeps when a discovery      *)
(* makes a new owner of the id of one that was renamed, and when a name of  *)
(* two rows is corrected.                                                   *)
Astray(r) == {a.name : a \in {b \in r.aliases : b.owner \in ExistingOwners(r) /\ b.name \notin r.owners[b.owner].aliases}}

(* A capture meets a person: one it can resolve under its own name, and any *)
(* other as a candidate; a trusted directory, or a reconciled generation    *)
(* with an id of its own.                                                   *)
Corrections(ws) == {w \in ws : w.kind # "capture"}
Discovered(r) ==
    /\ discoveries < MaxDiscoveries /\ discoveries' = discoveries + 1
    /\ registry' = r
    /\ unsaved' = TRUE /\ behind' = (behind \/ Corrections(inflight) # {})
    /\ adrift' = adrift \cup Astray(r)
    /\ UNCHANGED <<trail, storedRegistry, inflight, corrected, registryFaults>>
DiscoverCandidate(n, names) ==
    LET o == resolveMention(registry, n)
    IN  Discovered(IF o # NoOwner
                   THEN LET m == registry.owners[o].name IN discover(registry, m, m, names \cup {n}, "confirmed")
                   ELSE discover(registry, n, n, names, "unsure"))
DiscoverTrusted(n) == Discovered(discover(registry, n, n, {n}, "confirmed"))
Materialize(n, id) ==
    /\ registry.owners[id] # NoOwner => registry.owners[id].name = n
    /\ Discovered(discover(registry, id, n, {}, "unsure"))

(* The commit of a capture takes the rows as they are when it is called (a  *)
(* merged owner is not listed). It is written after many reads, and once    *)
(* more with the same rows if others were written meanwhile; one capture    *)
(* runs at a time.                                                          *)
Listed(r) == [r EXCEPT !.owners = [o \in OwnerIds |-> IF o \in Unmerged(r) THEN r.owners[o] ELSE NoOwner]]
BeginCommit ==
    /\ unsaved /\ unsaved' = FALSE
    /\ inflight = Corrections(inflight)
    /\ inflight' = inflight \cup {[kind |-> "capture", audit |-> 0, rows |-> Listed(registry), old |-> FALSE]}
    /\ UNCHANGED <<registry, trail, storedRegistry, behind, corrected, adrift, discoveries, registryFaults>>

-----------------------------------------------------------------------------
(* A correction of the user: the registry changes, an audit keeps what was *)
(* there, and the listed registry is written; whatever is on its way then  *)
(* is older.                                                               *)
Overtaking(kind, i, r) == {[w EXCEPT !.old = TRUE] : w \in inflight}
                       \cup {[kind |-> kind, audit |-> i, rows |-> Listed(r), old |-> FALSE]}
Corrects(r) ==
    /\ Len(trail) < MaxCorrections
    /\ registry' = r /\ inflight' = Overtaking("correction", Len(trail) + 1, r)
    /\ trail' = Append(trail, [before |-> Listed(registry), undone |-> FALSE])
    /\ adrift' = adrift \cup Astray(r)
    /\ UNCHANGED <<storedRegistry, unsaved, behind, discoveries, registryFaults>>

(* The names of a confirmed candidate are taken from whoever had them. *)
Lost(r, x, names) == {a.name : a \in {b \in r.aliases : b.owner = x /\ b.name \in names}}
Taken(r, o, names) ==
    [r EXCEPT !.aliases = {a \in @ : a.owner = o \/ a.name \notin names},
              !.owners = [x \in OwnerIds |-> IF x = o \/ r.owners[x] = NoOwner THEN r.owners[x]
                                             ELSE [r.owners[x] EXCEPT !.aliases = r.owners[x].aliases \ Lost(r, x, names)]]]
AllSure(r, o) == [r EXCEPT !.aliases = {IF a.owner = o THEN [a EXCEPT !.status = "confirmed"] ELSE a : a \in @}]
\* before: the registry as it was when the user chose.
Confirmed(before, r, c, o) ==
    LET held == c.ref \in ExistingOwners(before)
        waits == held /\ c.ref # o /\ before.owners[c.ref].status = "pending"
        away == IF waits THEN [r EXCEPT !.owners[c.ref].status = "merged"] ELSE r
        names == {c.name} \cup c.aliases \cup (IF held THEN before.owners[c.ref].aliases ELSE {})
        asked == IF held THEN c.ref ELSE NoOwner
    IN  WithoutCandidates(AllSure(addAliases(Taken([away EXCEPT !.owners[o].status = "confirmed"], o, names), o, names, "confirmed"), o),
               {d \in r.candidates : d.id = c.id \/ d.ref = asked \/ d.name = c.name})
ConfirmExisting(c, o) ==
    /\ c \in registry.candidates /\ o \in Unmerged(registry)
    /\ Corrects(Confirmed(registry, registry, c, o)) /\ UNCHANGED corrected
ConfirmNew(c, n) ==
    /\ c \in registry.candidates
    /\ Namesakes(registry, n) \subseteq {c.ref}
    /\ IF c.ref \in Namesakes(registry, n) /\ registry.owners[c.ref].status = "pending"
       THEN Corrects(Confirmed(registry, registry, c, c.ref))
       ELSE /\ Discoverer(registry, n, n, "confirmed") # NoOwner
            /\ Corrects(Confirmed(registry, discover(registry, n, n, {c.name} \cup c.aliases, "confirmed"), c,
                                  Discoverer(registry, n, n, "confirmed")))
    /\ UNCHANGED corrected

AliasesOf(r, o) == {a \in r.aliases : a.owner = o}
MergedInto(r, from, into) ==
    LET joined == [r EXCEPT !.owners = [r.owners EXCEPT ![from].status = "merged",
                                                        ![into].aliases = r.owners[into].aliases \cup r.owners[from].aliases],
                            !.aliases = @ \ AliasesOf(r, from),
                            !.candidates = {IF c.ref = from THEN [c EXCEPT !.ref = into] ELSE c : c \in @}]
    IN  addAliases(joined, into, {a.name : a \in AliasesOf(r, from)}, "confirmed")
mergeActors(from, into) ==
    /\ from # into /\ {from, into} \subseteq Unmerged(registry)
    /\ Corrects(MergedInto(registry, from, into)) /\ UNCHANGED corrected

Split(r, o, n, new) ==
    LET parted == [r EXCEPT !.owners = [r.owners EXCEPT ![o].aliases = r.owners[o].aliases \ {n},
                                                        ![new] = [name |-> n, aliases |-> {n}, status |-> "confirmed"]],
                            !.aliases = {a \in @ : ~(a.owner = o /\ a.name = n)}]
    IN  addAliases(parted, new, {n}, "confirmed")
splitActor(o, n, new) ==
    /\ o \in Unmerged(registry) /\ registry.owners[new] = NoOwner
    /\ Corrects(Split(registry, o, n, new)) /\ UNCHANGED corrected

Renamed(r, o, n) == addAliases([r EXCEPT !.owners[o].name = n], o, {n}, "confirmed")
renameActor(o, n) ==
    /\ o \in Unmerged(registry) /\ registry.owners[o].name # n
    /\ Corrects(Renamed(registry, o, n)) /\ UNCHANGED corrected

Given(r, a, o) ==
    LET loses == IF r.owners[a.owner] = NoOwner THEN r ELSE [r EXCEPT !.owners[a.owner].aliases = @ \ {a.name}]
    IN  [loses EXCEPT !.aliases = (@ \ {a}) \cup {[a EXCEPT !.owner = o, !.status = "confirmed"]},
                      !.owners[o].aliases = @ \cup {a.name}]
correctAlias(a, o) ==
    /\ a \in registry.aliases /\ o \in Unmerged(registry) \ {a.owner}
    /\ Corrects(Given(registry, a, o))
    /\ corrected' = corrected \cup {a.name}

(* An undo is written too; its audit is then settled. *)
UndoCorrection(i) ==
    /\ ~trail[i].undone
    /\ registry' = trail[i].before /\ inflight' = Overtaking("undo", i, trail[i].before)
    /\ trail' = [trail EXCEPT ![i].undone = TRUE]
    /\ UNCHANGED <<storedRegistry, unsaved, behind, corrected, adrift, discoveries, registryFaults>>

-----------------------------------------------------------------------------
(* upsertActorRegistryState replaces the rows. commitCapture adds its rows  *)
(* to those there are and deletes only the candidates of the owners it      *)
(* confirms. A write that lands after a newer one leaves the older rows.    *)
Upserted(s, r) ==
    [owners |-> [o \in OwnerIds |-> IF o \in ExistingOwners(r) THEN r.owners[o] ELSE s.owners[o]],
     aliases |-> r.aliases \cup {a \in s.aliases : \A b \in r.aliases : b.key # a.key},
     candidates |-> r.candidates \cup
                    {c \in s.candidates :
                       /\ \A d \in r.candidates : d.id # c.id
                       /\ c.ref = NoOwner \/ c.ref \notin ExistingOwners(r) \/ r.owners[c.ref].status # "confirmed"}]
Latest == {w \in Corrections(inflight) : ~w.old}
WriteLands(w) ==
    /\ inflight' = inflight \ {w}
    /\ storedRegistry' = IF w.kind = "capture" THEN Upserted(storedRegistry, w.rows) ELSE w.rows
    /\ unsaved' = (unsaved /\ w.kind = "capture")
    /\ behind' = (behind \/ (w.old /\ Latest = {}))
    /\ UNCHANGED <<registry, trail, corrected, adrift, discoveries, registryFaults>>
WriteIsLost(w) ==
    /\ inflight' = inflight \ {w}
    /\ registryFaults < MaxRegistryFaults /\ registryFaults' = registryFaults + 1
    /\ unsaved' = (unsaved \/ w.kind = "capture")
    /\ behind' = (behind \/ w.kind # "capture")
    /\ UNCHANGED <<registry, trail, storedRegistry, corrected, adrift, discoveries>>

(* reloadActorDirectoryState: the registry is what is stored, though a      *)
(* write may be on its way.                                                 *)
ReloadRegistry ==
    /\ registry # storedRegistry
    /\ registry' = storedRegistry /\ unsaved' = FALSE
    /\ behind' = (behind \/ inflight # {})
    /\ UNCHANGED <<trail, storedRegistry, inflight, corrected, adrift, discoveries, registryFaults>>

CorrectionStep ==
    \/ \E c \in registry.candidates : (\E o \in OwnerIds : ConfirmExisting(c, o)) \/ \E n \in Names : ConfirmNew(c, n)
    \/ \E o, p \in OwnerIds : mergeActors(o, p)
    \/ \E o \in OwnerIds, n \in Names : renameActor(o, n) \/ \E new \in FreshOwners : splitActor(o, n, new)
    \/ \E a \in registry.aliases, o \in OwnerIds : correctAlias(a, o)
DiscoveryStep ==
    \E n \in Names : \/ \E names \in {{}} \cup {{m} : m \in Names} : DiscoverCandidate(n, names)
                     \/ DiscoverTrusted(n)
                     \/ \E id \in FreshOwners : Materialize(n, id)
RegistryNext ==
    \/ DiscoveryStep \/ BeginCommit \/ CorrectionStep
    \/ \E i \in DOMAIN trail : UndoCorrection(i)
    \/ \E w \in inflight : WriteLands(w) \/ WriteIsLost(w)
    \/ ReloadRegistry
RegistrySpec == RegistryInit /\ [][RegistryNext]_registryVars

-----------------------------------------------------------------------------
(* Every alias belongs to an owner that is there, and every candidate that *)
(* is tied to an owner to one that still waits or took the candidate over, *)
(* whatever was merged, split, corrected, undone or reloaded; a name its   *)
(* owner's own list has lost is the exception.                             *)
NothingDangles ==
    ~behind =>
    /\ \A a \in registry.aliases : a.name \in adrift \/ a.owner \in Unmerged(registry)
    /\ \A c \in registry.candidates : c.ref = NoOwner \/ c.ref \in Unmerged(registry)

(* Once every write has ended, what a name means after a reload is what it *)
(* means now, unless a write failed, a discovery or a reload fell into one *)
(* or was not written, or an older write landed after the last correction. *)
ReloadKeepsNames ==
    (inflight = {} /\ ~unsaved /\ ~behind)
        => \A n \in Names : resolveMention(storedRegistry, n) = resolveMention(registry, n)

(* What captures discover may make a name ambiguous, and never gives it to *)
(* another person, unless the user moved that name before.                 *)
DiscoveryKeepsNames ==
    discoveries' > discoveries =>
        \A n \in Names \ corrected : resolveMention(registry, n) # NoOwner
                                       => resolveMention(registry', n) \in {resolveMention(registry, n), NoOwner}

(* The names of the directory stand: nothing in it dangles, a reload keeps *)
(* what they mean, and captures give none of them away.                    *)
NamesStand == /\ [](RegistryTypeOK /\ NothingDangles /\ ReloadKeepsNames)
              /\ [][DiscoveryKeepsNames]_registryVars

(* A name the user gave to another person is not taken back by a capture:  *)
(* no stage rebinds an alias by itself.                                    *)
NoAutomaticRebinding ==
    [][discoveries' > discoveries =>
         \A n \in Names : resolveMention(registry, n) # NoOwner
                            => resolveMention(registry', n) \in {resolveMention(registry, n), NoOwner}]_registryVars
=============================================================================
