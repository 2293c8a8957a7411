----------------------------- MODULE ConfigurePage -----------------------------
(***************************************************************************)
(* The owner's page in one tab of a browser: src/public/configure.js.      *)
(* It generates a profile, pairs a device with it, manages the profile     *)
(* under the session that pairing gave, and imports providers.  Whatever   *)
(* ends or replaces that session starts a new epoch, cancels the provider  *)
(* operation and aborts the refresh; answers of an earlier epoch still     *)
(* arrive, in any order or never.  A reload of the tab keeps nothing but   *)
(* the record of a pairing whose answer is not known.                      *)
(*                                                                         *)
(* What the page keeps of a session, its csrf, its api and the private     *)
(* links, is set and cleared together and is the session here: the number  *)
(* of the attempt at pairing that brought it.  The Bridge is what the page *)
(* sees of it.                                                             *)
(***************************************************************************)
EXTENDS Naturals, Sequences, FiniteSets

CONSTANTS
    Configs, Codes, None,
    MaxEpochs, MaxGenerates, MaxAttempts, MaxSends, MaxReloads, MaxOperations, MaxChanges

VARIABLES
    \* the tab
    page,          \* config, session, epoch, ready, opened, busy, refresh, leaving
    operation,     \* the holder of providerOperationMutex, None when it is free
    flows,         \* management actions under way
    generating,    \* profiles whose generation is under way
    record,        \* the attempt in the session storage
    \* what is under way to the Bridge
    pairings,      \* activations
    flying,        \* calls of provider operations
    \* the Bridge
    attempts,      \* the code and the profile of each attempt
    codes,         \* the attempt that consumed each code
    dead,          \* sessions that are not valid any more
    providers,     \* the revision of each profile's providers
    backups,       \* operations whose source was backed up, with their profile
    imports,       \* imports that were written
    \* history and bounds
    applied,       \* attempts whose success the page has had
    given,         \* attempts whose record ended with an answer or its time
    overlapped,    \* an activation was sent while another was under way
    spent

tab == <<page, operation, flows, generating, record>>
bridge == <<attempts, codes, dead, providers, backups, imports>>
vars == <<tab, pairings, flying, bridge, applied, given, overlapped, spent>>

Loaded(config, epoch) ==
    [config |-> config, session |-> None, epoch |-> epoch, ready |-> FALSE, opened |-> FALSE,
     busy |-> None, refresh |-> None, leaving |-> FALSE]

Init ==
    /\ page = Loaded(None, 1) /\ operation = None /\ flows = {} /\ generating = {} /\ record = None
    /\ pairings = {} /\ flying = {}
    /\ attempts = <<>> /\ codes = [k \in Codes |-> None] /\ dead = {}
    /\ providers = [c \in Configs |-> 0] /\ backups = {} /\ imports = {}
    /\ applied = {} /\ given = {} /\ overlapped = FALSE
    /\ spent = [generates |-> 0, sends |-> 0, reloads |-> 0, operations |-> 0, changes |-> 0]

Spend(what, limit) == spent[what] < limit /\ spent' = [spent EXCEPT ![what] = @ + 1]
ProfileOf(session) == attempts[session].config

(***************************************************************************)
(* Authority.                                                              *)
(***************************************************************************)
IsCurrent(x) == page.session # None /\ x.epoch = page.epoch /\ x.session = page.session

\* Mutant: it goes on.
GoesOn(o) == o

Aborted(o) == IF o = None THEN None ELSE [o EXCEPT !.aborted = TRUE]

\* The end of the page's authority: a new epoch with nothing of the old one.
AuthorityEnds(config) ==
    /\ page.epoch < MaxEpochs
    /\ page' = Loaded(config, page.epoch + 1)
    /\ operation' = Aborted(operation)

ShowResult(c) ==
    /\ c \in generating /\ generating' = generating \ {c}
    /\ AuthorityEnds(c)
    /\ UNCHANGED <<flows, record, pairings, flying, bridge, applied, given, overlapped, spent>>

Generate(c) ==
    /\ ~page.leaving /\ c \notin generating
    /\ generating' = generating \cup {c}
    /\ Spend("generates", MaxGenerates)
    /\ UNCHANGED <<page, operation, flows, record, pairings, flying, bridge, applied, given,
                   overlapped>>

GenerateFails(c) ==
    /\ c \in generating /\ generating' = generating \ {c}
    /\ UNCHANGED <<page, operation, flows, record, pairings, flying, bridge, applied, given,
                   overlapped, spent>>

(***************************************************************************)
(* Pairing and its recovery.                                               *)
(***************************************************************************)
Send(n, by) ==
    /\ Spend("sends", MaxSends)
    /\ pairings' = pairings \cup {[attempt |-> n, by |-> by, reply |-> "none"]}
    /\ overlapped' = (overlapped \/ pairings # {})

\* An attempt whose answer is not known is taken up again; another code or
\* profile has to wait for it.
MayPair ==
    ~page.leaving /\ page.config # None /\ \A p \in pairings : p.by # "pair"

PairAgain(k) ==
    /\ MayPair /\ record # None
    /\ attempts[record] = [code |-> k, config |-> page.config]
    /\ Send(record, "pair")
    /\ UNCHANGED <<tab, flying, bridge, applied, given>>

PairAnew(k) ==
    /\ MayPair /\ record = None /\ Len(attempts) < MaxAttempts
    /\ attempts' = Append(attempts, [code |-> k, config |-> page.config])
    /\ record' = Len(attempts')
    /\ Send(Len(attempts'), "pair")
    /\ UNCHANGED <<page, operation, flows, generating, flying, codes, dead, providers, backups,
                   imports, applied, given>>

\* The Bridge answers a code's first attempt, and that attempt again while its
\* replay lasts; a recovery names no code, and what it does not find is refused.
Activated(p, reply) ==
    LET k == attempts[p.attempt].code
        fresh == codes[k] = None /\ (p.by # "recover")
    IN  /\ p \in pairings /\ p.reply = "none"
        /\ \/ reply = "ok" /\ (fresh \/ codes[k] = p.attempt)
           \/ reply = "refused" /\ ~fresh
           \/ reply = "failed"
        /\ codes' = IF reply = "ok" THEN [codes EXCEPT ![k] = p.attempt] ELSE codes
        /\ given' = IF reply = "refused" THEN given \cup {p.attempt} ELSE given
        /\ pairings' = IF p.by = "gone" THEN pairings \ {p}
                       ELSE (pairings \ {p}) \cup {[p EXCEPT !.reply = reply]}
        /\ UNCHANGED <<tab, flying, attempts, dead, providers, backups, imports, applied,
                       overlapped, spent>>

\* A request or its answer is lost.
PairingLost(p) ==
    /\ p \in pairings /\ pairings' = pairings \ {p}
    /\ UNCHANGED <<tab, flying, bridge, applied, given, overlapped, spent>>

Refreshing(epoch, session) ==
    [kind |-> "refresh", epoch |-> epoch, session |-> session, stage |-> "state"]

\* The answer of an activation: the page is of the new session, ...
PairSucceeded(p) ==
    /\ p \in pairings /\ p.reply = "ok" /\ page.epoch < MaxEpochs
    /\ pairings' = pairings \ {p}
    /\ page' = [Loaded(ProfileOf(p.attempt), page.epoch + 1) EXCEPT
                   !.session = p.attempt, !.busy = page.epoch + 1, !.refresh = page.epoch + 1,
                   !.leaving = page.leaving]
    /\ operation' = Aborted(operation)
    /\ flows' = flows \cup {Refreshing(page.epoch + 1, p.attempt)}
    /\ record' = None /\ applied' = applied \cup {p.attempt}
    /\ UNCHANGED <<generating, flying, bridge, given, overlapped, spent>>

\* ... the attempt is over, ...
PairRefused(p) ==
    /\ p \in pairings /\ p.reply = "refused" /\ pairings' = pairings \ {p}
    /\ record' = None
    /\ UNCHANGED <<page, operation, flows, generating, flying, bridge, applied, given, overlapped,
                   spent>>

\* Mutant: what failed is forgotten.
PairForgotten(p) ==
    /\ p \in pairings /\ p.reply = "failed" /\ pairings' = pairings \ {p}
    /\ record' = None
    /\ UNCHANGED <<page, operation, flows, generating, flying, bridge, applied, given, overlapped,
                   spent>>

\* ... or not known.
PairFailed(p) ==
    /\ p \in pairings /\ p.reply = "failed" /\ pairings' = pairings \ {p}
    /\ UNCHANGED <<tab, flying, bridge, applied, given, overlapped, spent>>

RecordExpires ==
    /\ record # None /\ given' = given \cup {record} /\ record' = None
    /\ UNCHANGED <<page, operation, flows, generating, pairings, flying, bridge, applied,
                   overlapped, spent>>

\* The tab loads again: requests that it had sent may still arrive.
Reloaded(config, sent) ==
    LET gone == {[p EXCEPT !.by = "gone"] : p \in {q \in pairings : q.reply = "none"}}
    IN  /\ page.epoch < MaxEpochs /\ page' = Loaded(config, page.epoch + 1)
        /\ operation' = None /\ flows' = {} /\ generating' = {}
        /\ pairings' = gone \cup sent
        /\ overlapped' = (overlapped \/ (sent # {} /\ gone # {}))
        /\ Spend("reloads", MaxReloads)
        /\ UNCHANGED <<record, flying, bridge, applied, given>>

Reload == record = None /\ Reloaded(None, {})

\* What it finds in the record it asks the Bridge about.
RecoverPendingPairing ==
    /\ record # None
    /\ Reloaded(ProfileOf(record), {[attempt |-> record, by |-> "recover", reply |-> "none"]})

(***************************************************************************)
(* Management of the profile.                                              *)
(***************************************************************************)
MayManage == ~page.leaving /\ page.session # None /\ page.busy = None

BeginFlow(kind) ==
    /\ MayManage
    /\ flows' = flows \cup {[kind |-> kind, epoch |-> page.epoch, session |-> page.session,
                             stage |-> IF kind = "refresh" THEN "state" ELSE "call"]}
    /\ page' = [page EXCEPT !.busy = page.epoch,
                            !.refresh = IF kind = "refresh" THEN page.epoch ELSE @]
    /\ Spend("changes", MaxChanges)
    /\ UNCHANGED <<operation, generating, record, pairings, flying, bridge, applied, given,
                   overlapped>>

RefreshAgain == BeginFlow("refresh")
RunAction == BeginFlow("action")
DeleteProfile == BeginFlow("delete")
ConnectTrakt == BeginFlow("trakt")

\* setManagementPending(false, authority)
Freed(f) == IF page.busy \in {None, f.epoch} THEN [page EXCEPT !.busy = None] ELSE page

\* What a flow leaves behind when it ends without success.
Settled(f) ==
    IF f.kind = "refresh"
    THEN IF page.refresh = f.epoch THEN [Freed(f) EXCEPT !.refresh = None] ELSE page
    ELSE IF f.kind = "delete" /\ ~IsCurrent(f) THEN page
    ELSE Freed(f)

FlowFails(f) ==
    /\ f \in flows /\ flows' = flows \ {f}
    /\ page' = Settled(f)
    /\ UNCHANGED <<operation, generating, record, pairings, flying, bridge, applied, given,
                   overlapped, spent>>

\* 401, or 403 for the profile: the page starts over unless it already has.
FlowDenied(f) ==
    /\ f \in flows /\ f.session \in dead /\ flows' = flows \ {f}
    /\ IF IsCurrent(f) THEN AuthorityEnds(page.config)
       ELSE page' = Settled(f) /\ UNCHANGED operation
    /\ UNCHANGED <<generating, record, pairings, flying, bridge, applied, given, overlapped, spent>>

\* The answer ends a flow that is of an earlier epoch or has nothing more to do.
FlowEnds(f) ==
    /\ f \in flows /\ f.session \notin dead
    /\ f.kind = "refresh" \/ f.stage = "state" \/ ~IsCurrent(f)
    /\ flows' = flows \ {f} /\ page' = Settled(f)
    /\ UNCHANGED <<operation, generating, record, pairings, flying, bridge, applied, given,
                   overlapped, spent>>

\* The action was done; the state of the profile is read again.
ActionDone(f) ==
    /\ f \in flows /\ f.session \notin dead
    /\ f.kind = "action" /\ f.stage = "call" /\ IsCurrent(f)
    /\ flows' = (flows \ {f}) \cup {[f EXCEPT !.stage = "state"]}
    /\ UNCHANGED <<page, operation, generating, record, pairings, flying, bridge, applied, given,
                   overlapped, spent>>

\* The page leaves for Trakt.
TraktLaunched(f) ==
    /\ f \in flows /\ f.session \notin dead /\ f.kind = "trakt" /\ IsCurrent(f)
    /\ flows' = flows \ {f} /\ page' = [page EXCEPT !.leaving = TRUE]
    /\ UNCHANGED <<operation, generating, record, pairings, flying, bridge, applied, given,
                   overlapped, spent>>

\* The profile is deleted, and with it every session of it.
ProfileDeleted(f) ==
    /\ f \in flows /\ f.session \notin dead /\ f.kind = "delete" /\ IsCurrent(f)
    /\ flows' = flows \ {f} /\ AuthorityEnds(None)
    /\ dead' = dead \cup {n \in 1..Len(attempts) : ProfileOf(n) = ProfileOf(f.session)}
    /\ UNCHANGED <<generating, record, pairings, flying, attempts, codes, providers, backups,
                   imports, applied, given, overlapped, spent>>

\* The session lapses or is revoked elsewhere.
SessionDies(n) ==
    /\ n \in applied \ dead /\ dead' = dead \cup {n}
    /\ Spend("changes", MaxChanges)
    /\ UNCHANGED <<tab, pairings, flying, attempts, codes, providers, backups, imports, applied,
                   given, overlapped>>

(***************************************************************************)
(* Provider operations.                                                    *)
(***************************************************************************)
Calls == {"preview", "revision", "backup", "put"}
Call(o) == [operation |-> o.id, what |-> o.stage, session |-> o.session, revision |-> o.revision]

MayOperate == ~page.leaving /\ page.session # None /\ operation = None

BeginOperation(stage) ==
    /\ MayOperate
    /\ Spend("operations", MaxOperations)
    /\ operation' = [id |-> spent.operations + 1, epoch |-> page.epoch, session |-> page.session,
                     aborted |-> FALSE, reply |-> "none", revision |-> None, backup |-> FALSE,
                     stage |-> stage]
    /\ flying' = IF stage \in Calls THEN flying \cup {Call(operation')} ELSE flying
    /\ UNCHANGED <<page, flows, generating, record, pairings, bridge, applied, given, overlapped>>

ConnectStremio == BeginOperation("link")
PreviewManual == BeginOperation("preview")

OperationIsCurrent == operation # None /\ ~operation.aborted /\ IsCurrent(operation)

\* The next stage, with its call when it makes one.
Proceed(stage) ==
    /\ operation' = [operation EXCEPT !.stage = stage, !.reply = "none"]
    /\ flying' = IF stage \in Calls THEN flying \cup {Call(operation')} ELSE flying

\* What answers an operation that is not current is dropped.
AdvancesTo(from, to) ==
    /\ OperationIsCurrent /\ operation.stage = from
    /\ from \in Calls => operation.reply = "ok"
    /\ Proceed(to)
    /\ UNCHANGED <<page, flows, generating, record, pairings, bridge, applied, given, overlapped,
                   spent>>

\* Mutant: no backup.
ImportedAtOnce == AdvancesTo("revision", "put")

\* The account's link is approved and its collection read; the owner chooses of
\* what the Bridge has previewed; the source is backed up before the import.
LinkCreated == AdvancesTo("link", "approval")
Approved == AdvancesTo("approval", "account")
CollectionRead == AdvancesTo("account", "preview")
Previewed == AdvancesTo("preview", "decide")
Confirmed == AdvancesTo("decide", "revision")

RevisionRead == AdvancesTo("revision", "backup")

BackedUp == AdvancesTo("backup", "put")

Imported ==
    /\ OperationIsCurrent /\ operation.stage = "put" /\ operation.reply = "ok"
    /\ page' = [page EXCEPT !.ready = TRUE, !.opened = FALSE]
    /\ operation' = None
    /\ UNCHANGED <<flows, generating, record, pairings, flying, bridge, applied, given, overlapped,
                   spent>>

OperationDenied ==
    /\ operation # None /\ operation.reply = "denied" /\ IsCurrent(operation)
    /\ AuthorityEnds(page.config)
    /\ UNCHANGED <<flows, generating, record, pairings, flying, bridge, applied, given, overlapped,
                   spent>>

CancelOperation ==
    /\ operation # None /\ ~operation.aborted /\ ~page.leaving
    /\ operation' = [operation EXCEPT !.aborted = TRUE]
    /\ UNCHANGED <<page, flows, generating, record, pairings, flying, bridge, applied, given,
                   overlapped, spent>>

\* It was cancelled or something failed; its calls may still arrive.
OperationEnds ==
    /\ operation # None /\ operation' = None
    /\ UNCHANGED <<page, flows, generating, record, pairings, flying, bridge, applied, given,
                   overlapped, spent>>

Reply(call, reply, revision) ==
    operation' = IF operation # None /\ operation.id = call.operation /\ operation.stage = call.what
                 THEN [operation EXCEPT !.reply = reply,
                           !.revision = IF call.what = "revision" THEN revision ELSE @]
                 ELSE operation

\* The Bridge handles a call of an operation.
Handled(call, reply, revision) ==
    /\ call \in flying /\ flying' = flying \ {call}
    /\ Reply(call, reply, revision)
    /\ UNCHANGED <<page, flows, generating, record, pairings, attempts, codes, dead, applied,
                   given, overlapped, spent>>

CallDenied(call) ==
    /\ call.session \in dead /\ Handled(call, "denied", None)
    /\ UNCHANGED <<providers, backups, imports>>

ProvidersRead(call) ==
    /\ call.session \notin dead /\ call.what \in {"preview", "revision"}
    /\ Handled(call, "ok", providers[ProfileOf(call.session)])
    /\ UNCHANGED <<providers, backups, imports>>

BackupKept(call) ==
    /\ call.session \notin dead /\ call.what = "backup"
    /\ backups' = backups \cup {[operation |-> call.operation, config |-> ProfileOf(call.session)]}
    /\ Handled(call, "ok", None)
    /\ UNCHANGED <<providers, imports>>

\* An import is written at the revision that it names.
ImportWritten(call) ==
    LET c == ProfileOf(call.session)
    IN  /\ call.session \notin dead /\ call.what = "put" /\ call.revision = providers[c]
        /\ providers' = [providers EXCEPT ![c] = @ + 1]
        /\ imports' = imports \cup {[operation |-> call.operation, config |-> c,
                                     session |-> call.session]}
        /\ Handled(call, "ok", None)
        /\ UNCHANGED backups

ImportStale(call) ==
    /\ call.session \notin dead /\ call.what = "put"
    /\ call.revision # providers[ProfileOf(call.session)]
    /\ Handled(call, "stale", None)
    /\ UNCHANGED <<providers, backups, imports>>

\* Another page writes the profile's providers.
ChangedElsewhere(c) ==
    /\ Spend("changes", MaxChanges)
    /\ providers' = [providers EXCEPT ![c] = @ + 1]
    /\ UNCHANGED <<tab, pairings, flying, attempts, codes, dead, backups, imports, applied, given,
                   overlapped>>

InstallConfigured ==
    /\ page.ready /\ ~page.opened /\ page' = [page EXCEPT !.opened = TRUE]
    /\ UNCHANGED <<operation, flows, generating, record, pairings, flying, bridge, applied, given,
                   overlapped, spent>>

Next ==
    \/ \E c \in Configs : Generate(c) \/ ShowResult(c) \/ GenerateFails(c) \/ ChangedElsewhere(c)
    \/ \E k \in Codes : PairAgain(k) \/ PairAnew(k)
    \/ \E p \in pairings :
           \/ \E reply \in {"ok", "refused", "failed"} : Activated(p, reply)
           \/ PairingLost(p) \/ PairSucceeded(p) \/ PairRefused(p) \/ PairFailed(p)
    \/ RecordExpires \/ Reload \/ RecoverPendingPairing
    \/ RefreshAgain \/ RunAction \/ DeleteProfile \/ ConnectTrakt
    \/ \E f \in flows : FlowFails(f) \/ FlowDenied(f) \/ FlowEnds(f)
                       \/ ActionDone(f) \/ TraktLaunched(f) \/ ProfileDeleted(f)
    \/ \E n \in 1..Len(attempts) : SessionDies(n)
    \/ ConnectStremio \/ PreviewManual
    \/ LinkCreated \/ Approved \/ CollectionRead \/ Previewed \/ Confirmed \/ RevisionRead
    \/ BackedUp \/ Imported \/ OperationDenied \/ CancelOperation \/ OperationEnds
    \/ \E call \in flying :
           CallDenied(call) \/ ProvidersRead(call) \/ BackupKept(call) \/ ImportWritten(call)
           \/ ImportStale(call)
    \/ InstallConfigured

Spec == Init /\ [][Next]_vars

-----------------------------------------------------------------------------
\* The page is of one authority at a time: its session is of the profile it
\* shows; the operation that goes on and whoever keeps the page busy are of that
\* session, one management action at a time; and it is never left busy by
\* nobody (setManagementPending, refreshProfileManagement, showResult).
OneAuthority ==
    /\ page.session # None => ProfileOf(page.session) = page.config
    /\ operation # None /\ ~operation.aborted => IsCurrent(operation)
    /\ LET current == {f \in flows : IsCurrent(f)}
       IN  /\ Cardinality(current) <= 1
           /\ page.busy # None => page.leaving \/ \E f \in current : f.epoch = page.busy
           /\ current # {} => page.busy = page.epoch

\* The install links are shown only when providers were imported into this very
\* profile under this session; and every import, also one that lands after its
\* operation was cancelled, has a backup of its source in the same profile
\* (runBridgeProviderImport, persistSelection).
ReadyIsImported ==
    /\ page.ready =>
           \E i \in imports : i.config = page.config /\ i.session = page.session
    /\ page.opened => page.ready
    /\ \A i \in imports : [operation |-> i.operation, config |-> i.config] \in backups

\* An attempt that the Bridge has paired is one that the page has had, can still
\* recover, or was refused or ran out of time, whatever answers are lost and
\* whenever the tab reloads; as long as no two activations are under way at once
\* (preparePairingActivation, recoverPendingPairing, clearPairingRecovery).
PairingRecoverable ==
    ~overlapped =>
        \A k \in Codes : codes[k] # None =>
            codes[k] \in applied \cup given \/ codes[k] = record
            \/ \E p \in pairings : p.attempt = codes[k] /\ p.reply = "ok"
=============================================================================
