------------------------------ MODULE Governance --------------------------------
(***************************************************************************)
(* Who sees what on the Maintenance page.  The identity of a tab is a role *)
(* and a tenant in its URL, sent as headers with every request; the server *)
(* makes a context of them, lets handlers through or refuses them by the   *)
(* role and restricts reads to the tenant.  A panel keeps what it read in  *)
(* the query cache, under a key that has the identity in it, while the     *)
(* identity changes under requests in flight, back and forth.              *)
(* Operators whose names begin with Bad are seeded faults.                 *)
(***************************************************************************)
EXTENDS Naturals, Sequences, SequencesExt, FiniteSets

CONSTANTS
  Tenants,      \* tenant names that tenantIdSchema takes
  BadTenant,    \* one that it does not take, from a typed URL
  Limit,        \* events of a page of the audit trail
  MaxActs,      \* bound: audited changes and saved views
  MaxPicks      \* bound: changes of the identity

Cache == INSTANCE QueryCache

Unset == ""
NO_TENANT_SENTINEL == "__NO_TENANT__"
ROLES == {"viewer", "operator", "admin"}
PANELS == {"audit", "views", "redact-paths", "same-record", "export"}

VARIABLES
  panel,      \* the panel that is followed, or the saved views
  identity,   \* role and tenant of the URL
  entries,    \* entries of the query cache, with the identity that asked
  trail,      \* AuditEvent and SavedView rows, in order, with their authors
  exported,   \* the export under way, or the last file: none or one
  picks       \* bound counter

vars == <<panel, identity, entries, trail, exported, picks>>

-----------------------------------------------------------------------------
(* Headers and contexts. *)

\* rbacHeaders(): a tenant that is empty or not a name is not sent.
rbacHeaders(who) ==
  [role |-> who.role, tenantId |-> IF who.tenantId \in Tenants THEN who.tenantId ELSE Unset]

\* The log queries send whatever tenant the URL has.
rbacHeadersForQuery(who) == who

\* buildRbacContext(); the web app always sends a role.
buildRbacContext(headers) == headers
Context(who) == buildRbacContext(rbacHeaders(who))
Contexts == {Context(who) : who \in [role : ROLES, tenantId : Tenants \cup {Unset}]}

toRestriction(ctx) ==
  IF ctx.role = "admin" THEN Unset
  ELSE IF ctx.tenantId = Unset THEN NO_TENANT_SENTINEL ELSE ctx.tenantId

InScope(row, ctx) == toRestriction(ctx) = Unset \/ row.tenantId = toRestriction(ctx)
canExport(role) == role # "viewer"
isAdmin(role) == role = "admin"

-----------------------------------------------------------------------------
(* What the handlers read.  The request id that is looked up is on a line of *)
(* each of two tenants and on one of none; Postgres has only the first.      *)

Line(n, tenant) == [n |-> n, tenantId |-> tenant]
LogLines == {Line(1, "acme"), Line(2, "globex"), Line(3, Unset)}
Newest(rows, most) == {row \in rows : Cardinality({r \in rows : r.n > row.n}) < most}

Rows(table, ctx) ==
  {[n |-> n, tenantId |-> trail[n].tenantId] :
     n \in {m \in DOMAIN trail : trail[m].table = table /\ InScope(trail[m], ctx)}}

\* AuditController.list() and ViewsController.list().
Events(ctx) == Newest(Rows("AuditEvent", ctx), Limit)
Views(ctx) == Rows("SavedView", ctx)

\* 403: the audit trail and the redact paths are not for viewers.
Refused(what, ctx) == what \in {"audit", "redact-paths"} /\ ctx.role = "viewer"

\* Queries have the tenant of the URL as a parameter too; a restriction replaces it.
Found(table, tenant, ctx) ==
  {line \in table : IF toRestriction(ctx) # Unset THEN InScope(line, ctx)
                    ELSE tenant \in {Unset, line.tenantId}}

\* getSameRecord(): the newest row of each of the two tiers.
SameRecord(who) ==
  UNION {Newest(Found(tier, who.tenantId, buildRbacContext(rbacHeadersForQuery(who))), 1) :
           tier \in {LogLines, {Line(1, "acme")}}}

Read(what, who) ==
  CASE what = "audit"        -> Events(Context(who))
    [] what = "redact-paths" -> {}
    [] what = "same-record"  -> SameRecord(who)

-----------------------------------------------------------------------------
(* The panels. *)

\* The key of a panel's entry.  A seeded fault leaves the identity out.
BadQueryKey(who) == <<panel>>

queryKey(who) == <<panel, who.role, who.tenantId>>

\* AuditTable does not ask for a viewer; RedactPathsDialog does, and gets a 403.
Enabled(who) ==
  panel \in {"redact-paths", "same-record"} \/ (panel = "audit" /\ who.role # "viewer")

Load(who) == [asked |-> who, entry |-> Cache!FirstLoad]

Init ==
  /\ panel \in PANELS
  /\ identity \in [role : ROLES, tenantId : {Unset}]
  /\ entries = [key \in {queryKey(who) : who \in {w \in {identity} : Enabled(w)}} |->
                  Load(identity)]
  /\ trail = <<>> /\ exported = {} /\ picks = 0

\* TenantRoleSwitcher, or another URL.  A key that is cached is read again when it
\* has become stale, and shown meanwhile.
pick(who) ==
  /\ picks < MaxPicks /\ picks' = picks + 1
  /\ who # identity /\ identity' = who
  /\ LET key == queryKey(who)
     IN  IF ~Enabled(who) THEN UNCHANGED entries
         ELSE IF key \notin DOMAIN entries
         THEN entries' = [k \in DOMAIN entries \cup {key} |->
                            IF k = key THEN Load(who) ELSE entries[k]]
         ELSE \/ UNCHANGED entries
              \/ /\ entries[key].entry.fetch = "idle"
                 /\ entries' = [entries EXCEPT ![key].entry.fetch = "sent"]
  /\ UNCHANGED <<panel, trail, exported>>

\* A handler answers for the identity that asked, or refuses.
answer(key) ==
  LET who == entries[key].asked
  IN  /\ entries[key].entry.fetch = "sent"
      /\ entries' = [entries EXCEPT ![key].entry =
                       IF Refused(panel, Context(who)) THEN Cache!Fail(@)
                       ELSE Cache!Answer(@, Read(panel, who))]
      /\ UNCHANGED <<panel, identity, trail, exported, picks>>

arrives(key) ==
  /\ entries[key].entry.fetch = "answered"
  /\ entries' = [entries EXCEPT ![key].entry = Cache!Deliver(@)]
  /\ UNCHANGED <<panel, identity, trail, exported, picks>>

\* ExportPanel: one download at a time, of the query of the moment of the click; the
\* handler refuses viewers, and what arrives is saved.
download ==
  /\ panel = "export" /\ canExport(identity.role)
  /\ \A file \in exported : ~file.busy
  /\ exported' = {[busy |-> TRUE, asked |-> identity, rows |-> {}]}
  /\ UNCHANGED <<panel, identity, entries, trail, picks>>

saveBlob ==
  \E file \in exported :
    /\ file.busy /\ canExport(Context(file.asked).role)
    /\ exported' = {[file EXCEPT !.busy = FALSE,
                                 !.rows = Found(LogLines, file.asked.tenantId, Context(file.asked))]}
    /\ UNCHANGED <<panel, identity, entries, trail, picks>>

exportFails ==
  /\ \E file \in exported : file.busy
  /\ exported' = {}
  /\ UNCHANGED <<panel, identity, entries, trail, picks>>

-----------------------------------------------------------------------------
(* The handlers that write what the panel reads, for anybody. *)

Kinds ==
  CASE panel = "audit" -> {"rule", "retention", "channel", "incident"}
    [] panel = "views" -> {"SavedView"}
    [] OTHER -> {}

Accepted(kind, ctx) ==
  CASE kind = "rule" -> ctx.role # "viewer"
    [] kind \in {"retention", "channel"} -> isAdmin(ctx.role)
    [] kind = "incident"  -> isAdmin(ctx.role) \/ ctx.tenantId # Unset
    [] kind = "SavedView" -> ctx.role # "viewer" /\ (isAdmin(ctx.role) \/ ctx.tenantId # Unset)

\* audit.record() and savedView.create(): the row has the tenant of the context.  A
\* row of the audit trail that cannot be written is left out, and nobody is told.
record(kind, ctx) ==
  [table |-> IF kind = "SavedView" THEN kind ELSE "AuditEvent",
   tenantId |-> ctx.tenantId, by |-> ctx]

act(kind, ctx) ==
  /\ Len(trail) < MaxActs
  /\ Accepted(kind, ctx)
  /\ trail' = Append(trail, record(kind, ctx))
  /\ UNCHANGED <<panel, identity, entries, exported, picks>>

Next ==
  \/ \E who \in [role : ROLES, tenantId : Tenants \cup {Unset, BadTenant}] : pick(who)
  \/ \E key \in DOMAIN entries : answer(key) \/ arrives(key)
  \/ download \/ saveBlob \/ exportFails
  \/ \E kind \in Kinds, ctx \in Contexts : act(kind, ctx)

Spec == Init /\ [][Next]_vars

-----------------------------------------------------------------------------
(* Properties. *)

MayRead(ctx) == ctx.role = "admin" \/ ctx.tenantId # Unset

\* However identities and answers cross, a panel shows a tab what the server would
\* give its identity - no row of another tenant, nothing to a viewer that viewers
\* are refused, nothing at all without a tenant - and so does a file.  Nobody but an
\* administrator sees the rows of no tenant, and he sees other tenants than the one
\* he has chosen in nothing but the audit trail.
NothingForeignIsShown ==
  LET key == queryKey(identity)
      Fits(row, who) ==
        \/ who.tenantId # Unset /\ row.tenantId = who.tenantId
        \/ who.role = "admin" /\ (who.tenantId = Unset \/ panel = "audit")
  IN  /\ key \in DOMAIN entries =>
           \A shown \in entries[key].entry.data :
             ~Refused(panel, Context(identity)) /\ \A row \in shown : Fits(row, identity)
      /\ \A file \in exported : \A row \in file.rows : Fits(row, file.asked)

\* Whoever changes something that is audited, or saves a view, finds it when he reads
\* it back, unless he may not read or newer events of his have filled the page.
WhatOneWritesOneReads ==
  \A n \in DOMAIN trail :
    LET by == trail[n].by
    IN  (by.role # "viewer" /\ MayRead(by)) =>
          IF trail[n].table = "SavedView" THEN \E row \in Views(by) : row.n = n
          ELSE \/ \E row \in Events(by) : row.n = n
               \/ Cardinality({row \in Rows("AuditEvent", by) : row.n > n}) >= Limit
==============================================================================
