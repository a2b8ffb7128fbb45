------------------------- MODULE ProbeRoundsProofs -------------------------
(***************************************************************************)
(* What the Access audits leave in the tables, and what the probe rounds   *)
(* beside them make of it: proofs for every account, every number of       *)
(* audits and rounds at once, and any bound.                               *)
(*                                                                         *)
(* The first half is about the audits alone and holds of every step of     *)
(* ProbeNext, in which the process may die in the middle of a round.       *)
(***************************************************************************)
EXTENDS ProbeRounds, FiniteSetTheorems, FoldLemmas, TLAPS

-----------------------------------------------------------------------------
(* The types of the audits.                                                *)

AuditLabels == {"idle", "apps", "policies", "tokens", "saveTokens", "auditAt",
                "alerts", "tunnels", "saveCoverage"}

\* What an account may hold beside its applications.
TokenSets == {acc.tokens : acc \in Accounts} \cup {{}}
AlertSets == {acc.alerts : acc \in Accounts} \cup {{}}

AuditVariables ==
  [found: [Apps -> Summary \cup {NoApp}], todo: SUBSET Apps, tokens: TokenSets,
   policies: AlertSets, readable: BOOLEAN, covered: SUBSET Tunnels, clean: BOOLEAN]

\* The policies are still to be read of applications that were listed.
AuditRec == {rec \in AuditVariables : rec.todo \subseteq Present(rec.found)}

AuditTypes ==
  /\ account \in Accounts /\ tunnels \subseteq Tunnels
  /\ apps \in [Apps -> Summary \cup {NoApp}]
  /\ auditAt \in BOOLEAN /\ settled \in BOOLEAN
  /\ coverage \in [readable: BOOLEAN, covered: SUBSET Tunnels]
  /\ auditPc \in [Auditors -> AuditLabels]
  /\ audit \in [Auditors -> AuditRec]

\* The rows of applications, before and after their policies were read.
LEMMA UnsummarisedType ==
  ASSUME NEW app \in App
  PROVE  Unsummarised(app) \in Summary /\ Unsummarised(app).domains = Domains(app)
BY DEF Unsummarised, Summary, App, Domains

LEMMA SummarisedType ==
  ASSUME NEW row \in Summary, NEW policies \in SUBSET Policies
  PROVE  Summarised(row, policies) \in Summary /\ Summarised(row, policies).domains = row.domains
<1>1. IsFiniteSet({}) /\ IsFiniteSet({"bypass"})
  BY FS_EmptySet, FS_Singleton
<1>2. IsFiniteSet({"bypass"} \cup {"service_token"})
  BY <1>1, FS_AddElement
<1>3. IsFiniteSet(({"bypass"} \cup {"service_token"}) \cup {"allow"})
  BY <1>2, FS_AddElement
<1>4. Policies = ({"bypass"} \cup {"service_token"}) \cup {"allow"}
  BY DEF Policies
<1>5. IsFiniteSet(policies)
  BY <1>3, <1>4, FS_Subset
<1>6. Cardinality(policies) \in Nat
  BY <1>5, FS_CardinalityType
<1>7. QED BY <1>6 DEF Summarised, Summary

\* The row of one application of an account, and all of them.
LEMMA AccountApp ==
  ASSUME NEW acc \in Accounts, NEW i \in Apps, acc.apps[i] # NoApp
  PROVE  /\ acc.apps[i] \in App
         /\ AppsOf(acc)[i] = Summarised(Unsummarised(acc.apps[i]), acc.apps[i].policies)
         /\ AppsOf(acc)[i] \in Summary /\ AppsOf(acc)[i].domains = Domains(acc.apps[i])
<1>1. acc.apps[i] \in App
  BY AccountAssumption
<1>2. acc.apps[i].policies \in SUBSET Policies
  BY <1>1 DEF App
<1>3. AppsOf(acc)[i] = Summarised(Unsummarised(acc.apps[i]), acc.apps[i].policies)
  BY DEF AppsOf
<1>4. Unsummarised(acc.apps[i]) \in Summary /\ Unsummarised(acc.apps[i]).domains = Domains(acc.apps[i])
  BY <1>1, UnsummarisedType
<1>5. QED BY <1>1, <1>2, <1>3, <1>4, SummarisedType

LEMMA AccountTypes ==
  ASSUME NEW acc \in Accounts
  PROVE  /\ AppsOf(acc) \in [Apps -> Summary \cup {NoApp}]
         /\ \A i \in Apps : AppsOf(acc)[i] = NoApp <=> acc.apps[i] = NoApp
<1>1. \A i \in Apps : acc.apps[i] # NoApp => AppsOf(acc)[i] \in Summary
  BY AccountApp
<1>2. \A i \in Apps : acc.apps[i] = NoApp => AppsOf(acc)[i] = NoApp
  BY DEF AppsOf
<1>3. AppsOf(acc) = [i \in Apps |-> AppsOf(acc)[i]]
  BY DEF AppsOf
<1>4. \A i \in Apps : AppsOf(acc)[i] \in Summary \cup {NoApp}
  BY <1>1, <1>2
<1>5. AppsOf(acc) \in [Apps -> Summary \cup {NoApp}]
  BY <1>3, <1>4
<1>6. QED BY <1>1, <1>2, <1>5, NoAppAssumption

\* Which hosts are protected depends on the rows there are and their domains.
SameDomains(old, new) ==
  \A i \in Apps : /\ old[i] = NoApp <=> new[i] = NoApp
                  /\ old[i] # NoApp => old[i].domains = new[i].domains

LEMMA SameProtected ==
  ASSUME NEW old, NEW new, SameDomains(old, new)
  PROVE  Present(new) = Present(old) /\ Protected(new) = Protected(old)
<1>1. Present(new) = Present(old)
  BY DEF Present, SameDomains
<1>2. \A i \in Present(old) : old[i].domains = new[i].domains
  BY DEF Present, SameDomains
<1>3. {old[i].domains : i \in Present(old)} = {new[i].domains : i \in Present(new)}
  BY <1>1, <1>2
<1>4. QED BY <1>1, <1>3 DEF Protected

\* What is listed of an account protects what its applications do.
LEMMA ListedTypes ==
  ASSUME AuditTypes
  PROVE  /\ Listed \in [Apps -> Summary \cup {NoApp}]
         /\ Present(account.apps) \in SUBSET Apps
         /\ Present(Listed) = Present(account.apps)
         /\ Present(Listed) = Present(AppsOf(account)) /\ Protected(Listed) = Protected(AppsOf(account))
<1>1. account \in Accounts
  BY DEF AuditTypes
<1>2. ASSUME NEW i \in Apps, account.apps[i] # NoApp
      PROVE  /\ Unsummarised(account.apps[i]) \in Summary
             /\ Unsummarised(account.apps[i]).domains = AppsOf(account)[i].domains
  BY <1>1, <1>2, AccountApp, UnsummarisedType
<1>3. \A i \in Apps : /\ Listed[i] \in Summary \cup {NoApp}
                      /\ Listed[i] = NoApp <=> account.apps[i] = NoApp
                      /\ Listed[i] # NoApp => Listed[i].domains = AppsOf(account)[i].domains
  BY <1>2, NoAppAssumption DEF Listed
<1>4. Listed = [i \in Apps |-> Listed[i]]
  BY DEF Listed
<1>5. Listed \in [Apps -> Summary \cup {NoApp}]
  BY <1>3, <1>4
<1>6. \A i \in Apps : AppsOf(account)[i] = NoApp <=> account.apps[i] = NoApp
  BY <1>1, AccountTypes
<1>7. SameDomains(AppsOf(account), Listed)
  BY <1>3, <1>6 DEF SameDomains
<1>8. Present(Listed) = Present(account.apps)
  <2>1. \A i \in Apps : Listed[i] = NoApp <=> account.apps[i] = NoApp
    BY <1>3
  <2>2. QED BY <2>1, Zenon DEF Present
<1>9. Present(account.apps) \in SUBSET Apps
  BY DEF Present
<1>10. QED BY <1>5, <1>7, <1>8, <1>9, SameProtected

LEMMA NoAuditType == NoAudit \in AuditRec
BY DEF NoAudit, AuditRec, AuditVariables, TokenSets, AlertSets

\* A step that changes the place and the variables of one audit.
Becomes(a, label, rec) ==
  /\ auditPc' = [auditPc EXCEPT ![a] = label]
  /\ audit' = [audit EXCEPT ![a] = rec]

Others(a) == \A b \in Auditors \ {a} : auditPc'[b] = auditPc[b] /\ audit'[b] = audit[b]

\* The same variables, apart from `clean`.
Like(new, old) ==
  /\ new.found = old.found /\ new.todo = old.todo /\ new.tokens = old.tokens
  /\ new.policies = old.policies /\ new.readable = old.readable /\ new.covered = old.covered

LEMMA BecomesTypes ==
  ASSUME AuditTypes, NEW a \in Auditors, NEW label \in AuditLabels, NEW rec \in AuditRec,
         Becomes(a, label, rec)
  PROVE  /\ auditPc' \in [Auditors -> AuditLabels] /\ audit' \in [Auditors -> AuditRec]
         /\ auditPc'[a] = label /\ audit'[a] = rec /\ Others(a)
BY DEF AuditTypes, Becomes, Others

\* An audit that ends has forgotten everything.
LEMMA EndsTypes ==
  ASSUME AuditTypes, NEW a \in Auditors, AuditDone(a)
  PROVE  /\ auditPc' \in [Auditors -> AuditLabels] /\ audit' \in [Auditors -> AuditRec]
         /\ auditPc'[a] = "idle" /\ audit'[a] = NoAudit /\ Others(a)
<1>1. Becomes(a, "idle", NoAudit) /\ "idle" \in AuditLabels
  BY DEF AuditDone, Goto, Becomes, AuditLabels
<1>2. QED BY <1>1, NoAuditType, BecomesTypes

\* Nor is any audit clean after a change of the account, or a write of one
\* that is not.
LEMMA SoiledTypes ==
  ASSUME AuditTypes, audit' = [b \in Auditors |-> [audit[b] EXCEPT !.clean = FALSE]]
  PROVE  /\ audit' \in [Auditors -> AuditRec]
         /\ \A b \in Auditors : Like(audit'[b], audit[b]) /\ ~audit'[b].clean
<1>1. ASSUME NEW rec \in AuditRec
      PROVE  LET new == [rec EXCEPT !.clean = FALSE]
             IN new \in AuditRec /\ Like(new, rec) /\ ~new.clean
  BY DEF AuditRec, AuditVariables, Like
<1>2. \A b \in Auditors : audit[b] \in AuditRec
  BY DEF AuditTypes
<1>3. QED BY <1>1, <1>2

-----------------------------------------------------------------------------
(* What each step of an audit does to its variables.                       *)

LEMMA BeginEffect ==
  ASSUME AuditTypes, NEW a \in Auditors, BeginAudit(a)
  PROVE  /\ AuditTypes' /\ Others(a) /\ auditPc[a] = "idle" /\ auditPc'[a] = "apps"
         /\ Like(audit'[a], audit[a])
<1> DEFINE rec == [audit[a] EXCEPT !.clean = TRUE]
<1>1. rec \in AuditRec /\ Like(rec, audit[a])
  BY DEF AuditTypes, AuditRec, AuditVariables, Like
<1>2. Becomes(a, "apps", rec) /\ "apps" \in AuditLabels
  BY DEF BeginAudit, Goto, Becomes, AuditLabels
<1> HIDE DEF rec
<1>3. QED BY <1>1, <1>2, BecomesTypes DEF BeginAudit, AuditTypes, auditTables

LEMMA ListAppsEffect ==
  ASSUME AuditTypes, NEW a \in Auditors, ListApps(a)
  PROVE  /\ AuditTypes' /\ Others(a) /\ auditPc[a] = "apps"
         /\ \/ /\ auditPc'[a] = "policies"
               /\ audit'[a].todo = Present(account.apps) /\ audit'[a].found = Listed
               /\ audit'[a].readable = audit[a].readable /\ audit'[a].clean = audit[a].clean
            \/ auditPc'[a] = "idle" /\ audit'[a] = NoAudit
<1> DEFINE rec == [audit[a] EXCEPT !.todo = Present(account.apps), !.found = Listed]
<1>1. /\ rec \in AuditRec /\ rec.todo = Present(account.apps) /\ rec.found = Listed
      /\ rec.readable = audit[a].readable /\ rec.clean = audit[a].clean
  BY ListedTypes DEF AuditTypes, AuditRec, AuditVariables
<1>2. Becomes(a, "policies", rec) \/ AuditDone(a)
  BY DEF ListApps, Goto, Becomes
<1>3. "policies" \in AuditLabels
  BY DEF AuditLabels
<1> HIDE DEF rec
<1>4. QED BY <1>1, <1>2, <1>3, BecomesTypes, EndsTypes DEF ListApps, AuditTypes, auditTables

LEMMA ListPoliciesEffect ==
  ASSUME AuditTypes, NEW a \in Auditors, ListPolicies(a)
  PROVE  /\ AuditTypes' /\ Others(a) /\ auditPc[a] = "policies" /\ auditPc'[a] = "policies"
         /\ Present(audit'[a].found) = Present(audit[a].found)
         /\ Protected(audit'[a].found) = Protected(audit[a].found)
         /\ audit'[a].readable = audit[a].readable
         /\ \E i \in audit[a].todo :
              /\ audit'[a].todo = audit[a].todo \ {i}
              /\ \A j \in Apps \ {i} : audit'[a].found[j] = audit[a].found[j]
              /\ audit'[a].clean =>
                   /\ audit[a].clean /\ account.apps[i] # NoApp
                   /\ audit'[a].found[i] = Summarised(audit[a].found[i], account.apps[i].policies)
<1>1. /\ audit[a] \in AuditVariables /\ audit[a].todo \subseteq Present(audit[a].found)
      /\ account \in Accounts /\ auditPc \in [Auditors -> AuditLabels]
  BY DEF AuditTypes, AuditRec
<1> DEFINE i == NextApp(a)
<1>2. audit[a].todo # {}
  BY DEF ListPolicies
<1>3. i \in audit[a].todo
  BY <1>2 DEF NextApp
<1>4. i \in Apps /\ audit[a].found[i] \in Summary
  BY <1>1, <1>3 DEF AuditVariables, Present
<1> DEFINE read == Readable(a, i)
           blind == Unreadable(a, i)
<1>5. \/ account.apps[i] # NoApp /\ Becomes(a, "policies", read)
      \/ Becomes(a, "policies", blind)
  <2>1. auditPc' = [auditPc EXCEPT ![a] = "policies"]
    BY <1>1 DEF ListPolicies
  <2>2. \/ account.apps[i] # NoApp /\ audit' = [audit EXCEPT ![a] = read]
        \/ audit' = [audit EXCEPT ![a] = blind]
    BY DEF ListPolicies
  <2>3. QED BY <2>1, <2>2 DEF Becomes
<1> HIDE DEF i
<1>6. "policies" \in AuditLabels
  BY DEF AuditLabels
<1> DEFINE left == audit[a].todo \ {i}
<1>7. left \in SUBSET Apps /\ left \subseteq Present(audit[a].found)
  BY <1>1 DEF AuditVariables
<1>8. CASE account.apps[i] # NoApp /\ Becomes(a, "policies", read)
  <2> DEFINE row == Summarised(audit[a].found[i], account.apps[i].policies)
             found == [audit[a].found EXCEPT ![i] = row]
  <2>1. read = [audit[a] EXCEPT !.todo = left, !.found = found]
    BY <1>1 DEF Readable, AuditVariables
  <2>2. row \in Summary /\ row # NoApp /\ row.domains = audit[a].found[i].domains
    <3>1. account.apps[i] \in App
      BY <1>1, <1>4, <1>8, AccountApp
    <3>2. account.apps[i].policies \in SUBSET Policies
      BY <3>1 DEF App
    <3>3. QED BY <1>4, <3>2, SummarisedType, NoAppAssumption
  <2> HIDE DEF row, read
  <2>3. /\ found \in [Apps -> Summary \cup {NoApp}] /\ found[i] = row
        /\ \A j \in Apps \ {i} : found[j] = audit[a].found[j]
    BY <1>1, <1>4, <2>2 DEF AuditVariables
  <2> HIDE DEF found
  <2>4. Present(found) = Present(audit[a].found) /\ Protected(found) = Protected(audit[a].found)
    <3>1. SameDomains(audit[a].found, found)
      BY <1>4, <2>2, <2>3, NoAppAssumption DEF SameDomains
    <3>2. QED BY <3>1, SameProtected
  <2> HIDE DEF left
  <2>5. /\ read \in AuditRec /\ read.todo = left /\ read.found = found
        /\ read.readable = audit[a].readable /\ read.clean = audit[a].clean
    BY <1>1, <1>7, <2>1, <2>3, <2>4 DEF AuditRec, AuditVariables
  <2>6. audit' \in [Auditors -> AuditRec] /\ audit'[a] = read /\ Others(a)
        /\ auditPc' \in [Auditors -> AuditLabels] /\ auditPc'[a] = "policies"
    BY <1>6, <1>8, <2>5, BecomesTypes
  <2>7. AuditTypes' /\ auditPc[a] = "policies"
    BY <2>6 DEF ListPolicies, AuditTypes, auditTables
  <2>8. QED BY <1>3, <1>8, <2>3, <2>4, <2>5, <2>6, <2>7 DEF left, row
<1>9. CASE Becomes(a, "policies", blind)
  <2>1. blind = [audit[a] EXCEPT !.todo = left, !.clean = FALSE]
    BY <1>1 DEF Unreadable, AuditVariables
  <2> HIDE DEF blind, left
  <2>2. /\ blind \in AuditRec /\ blind.todo = left /\ blind.found = audit[a].found
        /\ blind.readable = audit[a].readable /\ ~blind.clean
    BY <1>1, <1>7, <2>1 DEF AuditRec, AuditVariables
  <2>3. audit' \in [Auditors -> AuditRec] /\ audit'[a] = blind /\ Others(a)
        /\ auditPc' \in [Auditors -> AuditLabels] /\ auditPc'[a] = "policies"
    BY <1>6, <1>9, <2>2, BecomesTypes
  <2>4. AuditTypes' /\ auditPc[a] = "policies"
    BY <2>3 DEF ListPolicies, AuditTypes, auditTables
  <2>5. QED BY <1>3, <2>2, <2>3, <2>4 DEF left
<1>10. QED BY <1>5, <1>8, <1>9

\* What an audit writes soils the others unless it is clean itself.
Written(a) ==
  \/ audit[a].clean /\ UNCHANGED <<audit, settled>>
  \/ /\ ~audit[a].clean /\ settled' = FALSE
     /\ \A b \in Auditors : Like(audit'[b], audit[b]) /\ ~audit'[b].clean

LEMMA WritesEffect ==
  ASSUME AuditTypes, NEW a \in Auditors, Writes(a)
  PROVE  Written(a) /\ audit' \in [Auditors -> AuditRec] /\ settled' \in BOOLEAN
BY SoiledTypes DEF Writes, Written, AuditTypes

LEMMA GotoEffect ==
  ASSUME AuditTypes, NEW a \in Auditors, NEW label \in AuditLabels, Goto(a, label)
  PROVE  /\ auditPc' \in [Auditors -> AuditLabels] /\ auditPc'[a] = label
         /\ \A b \in Auditors \ {a} : auditPc'[b] = auditPc[b]
BY DEF AuditTypes, Goto

LEMMA ReplaceAppsEffect ==
  ASSUME AuditTypes, NEW a \in Auditors, ReplaceAccessApps(a)
  PROVE  /\ AuditTypes' /\ auditPc[a] = "policies"
         /\ \/ /\ apps' = audit[a].found /\ audit[a].todo = {}
               /\ auditPc'[a] = "tokens" /\ Written(a)
               /\ \A b \in Auditors \ {a} : auditPc'[b] = auditPc[b]
            \/ /\ UNCHANGED <<apps, settled>>
               /\ auditPc'[a] = "idle" /\ audit'[a] = NoAudit /\ Others(a)
<1>1. audit[a].found \in [Apps -> Summary \cup {NoApp}]
  BY DEF AuditTypes, AuditRec, AuditVariables
<1>2. "tokens" \in AuditLabels
  BY DEF AuditLabels
<1>3. CASE apps' = Replaced(a) /\ Goto(a, "tokens") /\ Writes(a)
  BY <1>1, <1>2, <1>3, WritesEffect, GotoEffect DEF ReplaceAccessApps, AuditTypes, Replaced
<1>4. CASE AuditDone(a) /\ UNCHANGED <<apps, settled>>
  BY <1>4, EndsTypes DEF ReplaceAccessApps, AuditTypes
<1>5. QED BY <1>3, <1>4 DEF ReplaceAccessApps

LEMMA ListTokensEffect ==
  ASSUME AuditTypes, NEW a \in Auditors, ListServiceTokens(a)
  PROVE  /\ AuditTypes' /\ Others(a) /\ auditPc[a] = "tokens"
         /\ audit'[a].readable = audit[a].readable /\ audit'[a].found = audit[a].found
         /\ audit'[a].todo = audit[a].todo
         /\ \/ /\ auditPc'[a] = "saveTokens" /\ audit'[a].tokens = account.tokens
               /\ audit'[a].clean = audit[a].clean
            \/ auditPc'[a] = "auditAt" /\ ~audit'[a].clean
<1> DEFINE read == [audit[a] EXCEPT !.tokens = account.tokens]
           blind == [audit[a] EXCEPT !.clean = FALSE]
<1>1. account.tokens \in TokenSets
  BY DEF AuditTypes, TokenSets
<1>2. /\ read \in AuditRec /\ read.tokens = account.tokens /\ read.clean = audit[a].clean
      /\ read.readable = audit[a].readable /\ read.found = audit[a].found /\ read.todo = audit[a].todo
  BY <1>1 DEF AuditTypes, AuditRec, AuditVariables
<1>3. /\ blind \in AuditRec /\ ~blind.clean
      /\ blind.readable = audit[a].readable /\ blind.found = audit[a].found /\ blind.todo = audit[a].todo
  BY DEF AuditTypes, AuditRec, AuditVariables
<1>4. Becomes(a, "saveTokens", read) \/ Becomes(a, "auditAt", blind)
  BY DEF ListServiceTokens, Goto, Becomes
<1>5. "saveTokens" \in AuditLabels /\ "auditAt" \in AuditLabels
  BY DEF AuditLabels
<1> HIDE DEF read, blind
<1>6. QED BY <1>2, <1>3, <1>4, <1>5, BecomesTypes DEF ListServiceTokens, AuditTypes, auditTables

LEMMA ReplaceTokensEffect ==
  ASSUME AuditTypes, NEW a \in Auditors, ReplaceServiceTokens(a)
  PROVE  /\ AuditTypes' /\ auditPc[a] = "saveTokens"
         /\ \/ /\ tokens' = audit[a].tokens
               /\ auditPc'[a] = "auditAt" /\ Written(a)
               /\ \A b \in Auditors \ {a} : auditPc'[b] = auditPc[b]
            \/ /\ UNCHANGED <<tokens, settled>>
               /\ auditPc'[a] = "idle" /\ audit'[a] = NoAudit /\ Others(a)
<1>1. "auditAt" \in AuditLabels
  BY DEF AuditLabels
<1>2. CASE tokens' = audit[a].tokens /\ Goto(a, "auditAt") /\ Writes(a)
  BY <1>1, <1>2, WritesEffect, GotoEffect DEF ReplaceServiceTokens, AuditTypes
<1>3. CASE AuditDone(a) /\ UNCHANGED <<tokens, settled>>
  BY <1>3, EndsTypes DEF ReplaceServiceTokens, AuditTypes
<1>4. QED BY <1>2, <1>3 DEF ReplaceServiceTokens

LEMMA SetAuditAtEffect ==
  ASSUME AuditTypes, NEW a \in Auditors, SetAuditAt(a)
  PROVE  /\ AuditTypes' /\ Others(a) /\ auditPc[a] = "auditAt"
         /\ \/ auditAt' /\ auditPc'[a] = "alerts" /\ audit' = audit
            \/ UNCHANGED auditAt /\ auditPc'[a] = "idle" /\ audit'[a] = NoAudit
<1>1. "alerts" \in AuditLabels
  BY DEF AuditLabels
<1>2. CASE auditAt' = TRUE /\ Goto(a, "alerts") /\ UNCHANGED audit
  BY <1>1, <1>2, GotoEffect DEF SetAuditAt, AuditTypes, Others
<1>3. CASE AuditDone(a) /\ UNCHANGED auditAt
  BY <1>3, EndsTypes DEF SetAuditAt, AuditTypes
<1>4. QED BY <1>2, <1>3 DEF SetAuditAt

LEMMA ListAlertsEffect ==
  ASSUME AuditTypes, NEW a \in Auditors, ListNotificationPolicies(a)
  PROVE  /\ AuditTypes' /\ Others(a) /\ auditPc[a] = "alerts"
         /\ audit'[a].found = audit[a].found /\ audit'[a].todo = audit[a].todo
         /\ \/ /\ auditPc'[a] = "tunnels" /\ audit'[a].policies = account.alerts
               /\ audit'[a].clean = audit[a].clean /\ audit'[a].readable = audit[a].readable
            \/ auditPc'[a] = "saveCoverage" /\ ~audit'[a].clean
<1> DEFINE read == [audit[a] EXCEPT !.policies = account.alerts]
           blind == [audit[a] EXCEPT !.readable = FALSE, !.clean = FALSE]
<1>1. account.alerts \in AlertSets
  BY DEF AuditTypes, AlertSets
<1>2. /\ read \in AuditRec /\ read.policies = account.alerts /\ read.clean = audit[a].clean
      /\ read.readable = audit[a].readable /\ read.found = audit[a].found /\ read.todo = audit[a].todo
  BY <1>1 DEF AuditTypes, AuditRec, AuditVariables
<1>3. blind \in AuditRec /\ ~blind.clean /\ blind.found = audit[a].found /\ blind.todo = audit[a].todo
  BY DEF AuditTypes, AuditRec, AuditVariables
<1>4. Becomes(a, "tunnels", read) \/ Becomes(a, "saveCoverage", blind)
  BY DEF ListNotificationPolicies, Goto, Becomes, AuditTypes
<1>5. "tunnels" \in AuditLabels /\ "saveCoverage" \in AuditLabels
  BY DEF AuditLabels
<1> HIDE DEF read, blind
<1>6. QED BY <1>2, <1>3, <1>4, <1>5, BecomesTypes DEF ListNotificationPolicies, AuditTypes, auditTables

LEMMA ReadTunnelsEffect ==
  ASSUME AuditTypes, NEW a \in Auditors, ReadTunnels(a)
  PROVE  /\ AuditTypes' /\ Others(a) /\ auditPc[a] = "tunnels"
         /\ \/ /\ auditPc'[a] = "saveCoverage"
               /\ audit'[a].covered = {t \in tunnels : AlertedOn(audit[a].policies, t)}
               /\ audit'[a].clean = audit[a].clean /\ audit'[a].readable = audit[a].readable
               /\ audit'[a].found = audit[a].found /\ audit'[a].todo = audit[a].todo
            \/ auditPc'[a] = "idle" /\ audit'[a] = NoAudit
<1> DEFINE covered == {t \in tunnels : AlertedOn(audit[a].policies, t)}
           read == [audit[a] EXCEPT !.covered = covered]
<1>1. covered \in SUBSET Tunnels
  BY DEF AuditTypes
<1>2. Becomes(a, "saveCoverage", read) \/ AuditDone(a)
  BY DEF ReadTunnels, Goto, Becomes
<1> HIDE DEF covered
<1>3. /\ read \in AuditRec /\ read.covered = covered /\ read.clean = audit[a].clean
      /\ read.readable = audit[a].readable /\ read.found = audit[a].found /\ read.todo = audit[a].todo
  BY <1>1 DEF AuditTypes, AuditRec, AuditVariables
<1>4. "saveCoverage" \in AuditLabels
  BY DEF AuditLabels
<1> HIDE DEF read
<1>5. QED
  BY <1>2, <1>3, <1>4, BecomesTypes, EndsTypes DEF ReadTunnels, AuditTypes, auditTables, covered

LEMMA SaveCoverageEffect ==
  ASSUME AuditTypes, NEW a \in Auditors, SaveCoverage(a)
  PROVE  /\ AuditTypes' /\ auditPc[a] = "saveCoverage" /\ auditPc'[a] = "idle" /\ audit'[a] = NoAudit
         /\ \A b \in Auditors \ {a} : auditPc'[b] = auditPc[b]
         /\ \/ /\ coverage' = [readable |-> audit[a].readable, covered |-> audit[a].covered]
               /\ settled' = audit[a].clean
               /\ \A b \in Auditors \ {a} :
                    Like(audit'[b], audit[b]) /\ (audit'[b].clean => audit[b].clean /\ audit[a].clean)
            \/ UNCHANGED <<coverage, settled>> /\ Others(a)
<1>1. ASSUME AuditDone(a), UNCHANGED <<coverage, settled>>
      PROVE  AuditTypes' /\ auditPc'[a] = "idle" /\ audit'[a] = NoAudit /\ Others(a)
  BY <1>1, EndsTypes DEF SaveCoverage, AuditTypes
<1>2. ASSUME coverage' = [readable |-> audit[a].readable, covered |-> audit[a].covered],
             settled' = audit[a].clean, Goto(a, "idle"),
             audit' = [b \in Auditors |->
               IF b = a THEN NoAudit ELSE [audit[b] EXCEPT !.clean = @ /\ audit[a].clean]]
      PROVE  /\ AuditTypes' /\ auditPc'[a] = "idle" /\ audit'[a] = NoAudit
             /\ \A b \in Auditors \ {a} :
                  /\ auditPc'[b] = auditPc[b] /\ Like(audit'[b], audit[b])
                  /\ audit'[b].clean => audit[b].clean /\ audit[a].clean
  <2>1. "idle" \in AuditLabels
    BY DEF AuditLabels
  <2>2. /\ auditPc' \in [Auditors -> AuditLabels] /\ auditPc'[a] = "idle"
        /\ \A b \in Auditors \ {a} : auditPc'[b] = auditPc[b]
    BY <1>2, <2>1, GotoEffect
  <2>3. ASSUME NEW b \in Auditors
        PROVE  LET new == [audit[b] EXCEPT !.clean = audit[b].clean /\ audit[a].clean]
               IN new \in AuditRec /\ Like(new, audit[b]) /\ new.clean = (audit[b].clean /\ audit[a].clean)
    BY DEF AuditTypes, AuditRec, AuditVariables, Like
  <2>4. audit' \in [Auditors -> AuditRec]
    BY <1>2, <2>3, NoAuditType
  <2>5. /\ audit'[a] = NoAudit
        /\ \A b \in Auditors \ {a} :
             Like(audit'[b], audit[b]) /\ (audit'[b].clean => audit[b].clean /\ audit[a].clean)
    BY <1>2, <2>3
  <2>6. coverage' \in [readable: BOOLEAN, covered: SUBSET Tunnels] /\ settled' \in BOOLEAN
    BY <1>2 DEF AuditTypes, AuditRec, AuditVariables
  <2>7. AuditTypes'
    BY <2>2, <2>4, <2>6 DEF SaveCoverage, AuditTypes
  <2>8. QED BY <2>2, <2>5, <2>7
<1>3. QED BY <1>1, <1>2 DEF SaveCoverage, Others

\* The account and the poll soil every audit.
LEMMA UnsettleEffect ==
  ASSUME AuditTypes, AccountChanges \/ \E t \in Tunnels : PollStores(t)
  PROVE  /\ AuditTypes' /\ ~settled' /\ UNCHANGED <<auditPc, apps, tokens, auditAt, coverage>>
         /\ \A b \in Auditors : Like(audit'[b], audit[b]) /\ ~audit'[b].clean
BY SoiledTypes DEF AccountChanges, PollStores, Unsettle, AuditTypes, auditTables

\* A process that starts again has no audit running.
LEMMA DeathEffect ==
  ASSUME AuditTypes, AuditsDie, UNCHANGED <<account, tunnels, auditTables, settled>>
  PROVE  AuditTypes' /\ \A a \in Auditors : auditPc'[a] = "idle" /\ audit'[a] = NoAudit
<1>1. "idle" \in AuditLabels
  BY DEF AuditLabels
<1>2. QED BY <1>1, NoAuditType DEF AuditsDie, AuditTypes, auditTables

\* Every step of an audit, of the account or of the poll, the death of the
\* process, and the steps that leave all of them alone.
AuditStill == UNCHANGED <<account, tunnels, auditTables, auditPc, audit, settled>>
Death == AuditsDie /\ UNCHANGED <<account, tunnels, auditTables, settled>>
AuditMove == AuditNext \/ AuditStill \/ Death

LEMMA MoveCases ==
  ASSUME AuditMove
  PROVE  \/ \E a \in Auditors : AuditStep(a)
         \/ AccountChanges \/ \E t \in Tunnels : PollStores(t)
         \/ AuditStill \/ Death
BY DEF AuditMove, AuditNext, AuditCrash, Death

LEMMA AuditTypesStep ==
  ASSUME AuditTypes, AuditMove
  PROVE  AuditTypes'
<1>1. ASSUME NEW a \in Auditors, AuditStep(a) PROVE AuditTypes'
  BY <1>1, BeginEffect, ListAppsEffect, ListPoliciesEffect, ReplaceAppsEffect, ListTokensEffect,
     ReplaceTokensEffect, SetAuditAtEffect, ListAlertsEffect, ReadTunnelsEffect, SaveCoverageEffect
  DEF AuditStep
<1>2. CASE AuditStill
  BY <1>2 DEF AuditStill, AuditTypes, auditTables
<1>3. QED BY <1>1, <1>2, UnsettleEffect, DeathEffect, MoveCases DEF Death

LEMMA AuditTypesInit == AuditInit => AuditTypes
<1> SUFFICES ASSUME AuditInit PROVE AuditTypes
  OBVIOUS
<1>1. account \in Accounts /\ auditPc \in [Auditors -> AuditLabels] /\ audit \in [Auditors -> AuditRec]
  BY NoAuditType DEF AuditInit, AuditLabels
<1>2. CASE NewDatabase
  BY <1>1, <1>2 DEF AuditInit, NewDatabase, AuditTypes
<1>3. CASE AuditedDatabase
  BY <1>1, <1>3, AccountTypes DEF AuditInit, AuditedDatabase, AuditTypes
<1>4. QED BY <1>2, <1>3 DEF AuditInit

-----------------------------------------------------------------------------
(* Applications the account always had, and those it never had.            *)

\* The rows of some account, whatever their policies.
Complete(rows) == SteadyApps \subseteq Present(rows) /\ Steady \subseteq Protected(rows)
Modest(rows) == Protected(rows) \cap Never = {}

\* Once an audit has replaced the inventory no later one leaves out what the
\* account always has.
SteadyInv ==
  /\ \A a \in Auditors : auditPc[a] = "policies" => Complete(audit[a].found)
  /\ auditAt \/ (\E a \in Auditors : auditPc[a] \in {"tokens", "saveTokens", "auditAt"}) =>
       Complete(apps)

\* No audit finds an application where there never was one.
NeverInv == Modest(apps) /\ \A a \in Auditors : Modest(audit[a].found)

\* What is listed of an account is complete and modest, and so are its rows.
LEMMA ListedFits ==
  ASSUME AuditTypes
  PROVE  /\ Complete(Listed) /\ Modest(Listed)
         /\ Complete(AppsOf(account)) /\ Modest(AppsOf(account))
<1>1. account \in Accounts
  BY DEF AuditTypes
<1>2. Steady \subseteq Protected(AppsOf(account)) /\ Protected(AppsOf(account)) \cap Never = {}
  BY <1>1 DEF Steady, Never
<1>3. SteadyApps \subseteq Present(AppsOf(account))
  BY <1>1, AccountTypes DEF SteadyApps, Present
<1>4. QED BY <1>2, <1>3, ListedTypes DEF Complete, Modest

LEMMA NoRowsModest == Modest(NoAudit.found) /\ Modest([i \in Apps |-> NoApp])
<1>1. NoAudit.found = [i \in Apps |-> NoApp]
  BY DEF NoAudit
<1>2. Present([i \in Apps |-> NoApp]) = {}
  BY DEF Present
<1>3. QED BY <1>1, <1>2 DEF Modest, Protected

LEMMA SteadyStep ==
  ASSUME AuditTypes, SteadyInv, AuditMove
  PROVE  SteadyInv'
<1> DEFINE Late == {"tokens", "saveTokens", "auditAt"}
           Full == Complete(apps)
           Met(a) == auditPc[a] = "policies" => Complete(audit[a].found)
<1>1. Complete(Listed)
  BY ListedFits
<1>2. (\A a \in Auditors : Met(a)) /\ (auditAt \/ (\E a \in Auditors : auditPc[a] \in Late) => Full)
  BY DEF SteadyInv
<1>3. ASSUME NEW a \in Auditors, Met(a)', \A b \in Auditors \ {a} : auditPc'[b] = auditPc[b] /\
               audit'[b].found = audit[b].found,
             Full' \/ (/\ UNCHANGED apps /\ (auditAt' => auditAt \/ auditPc[a] \in Late)
                       /\ (auditPc'[a] \in Late => auditPc[a] \in Late))
      PROVE  SteadyInv'
  BY <1>2, <1>3 DEF SteadyInv
<1>4. ASSUME NEW a \in Auditors, ListPolicies(a)
      PROVE  SteadyInv'
  <2>1. /\ Others(a) /\ auditPc[a] = "policies" /\ auditPc'[a] = "policies"
        /\ Present(audit'[a].found) = Present(audit[a].found)
        /\ Protected(audit'[a].found) = Protected(audit[a].found)
    BY <1>4, ListPoliciesEffect
  <2>2. Complete(audit'[a].found)
    BY <1>2, <2>1 DEF Complete
  <2>3. UNCHANGED <<apps, auditAt>>
    BY <1>4 DEF ListPolicies, auditTables
  <2>4. QED BY <1>3, <2>1, <2>2, <2>3 DEF Others
<1>5. ASSUME NEW a \in Auditors, ListApps(a)
      PROVE  SteadyInv'
  <2>1. /\ Others(a)
        /\ \/ auditPc'[a] = "policies" /\ audit'[a].found = Listed
           \/ auditPc'[a] = "idle"
    BY <1>5, ListAppsEffect
  <2>2. Met(a)' /\ auditPc'[a] \notin Late
    BY <1>1, <2>1
  <2>3. UNCHANGED <<apps, auditAt>>
    BY <1>5 DEF ListApps, auditTables
  <2>4. QED BY <1>3, <2>1, <2>2, <2>3 DEF Others
<1>6. ASSUME NEW a \in Auditors, ReplaceAccessApps(a)
      PROVE  SteadyInv'
  <2>1. auditAt' = auditAt /\ auditPc[a] = "policies"
    BY <1>6 DEF ReplaceAccessApps
  <2>2. CASE /\ apps' = audit[a].found /\ audit[a].todo = {}
             /\ auditPc'[a] = "tokens" /\ Written(a)
             /\ \A b \in Auditors \ {a} : auditPc'[b] = auditPc[b]
    <3>1. Full'
      BY <1>2, <2>1, <2>2
    <3>2. \A b \in Auditors : audit'[b].found = audit[b].found
      BY <2>2 DEF Written, Like
    <3>3. Met(a)'
      BY <2>2
    <3>4. QED BY <1>3, <2>2, <3>1, <3>2, <3>3
  <2>3. CASE UNCHANGED apps /\ auditPc'[a] = "idle" /\ Others(a)
    BY <1>3, <2>1, <2>3 DEF Others
  <2>4. QED BY <1>6, <2>2, <2>3, ReplaceAppsEffect
<1>7. ASSUME NEW a \in Auditors, ReplaceServiceTokens(a)
      PROVE  SteadyInv'
  <2>1. UNCHANGED <<apps, auditAt>>
    BY <1>7 DEF ReplaceServiceTokens
  <2>2. /\ auditPc[a] \in Late /\ auditPc'[a] # "policies"
        /\ \A b \in Auditors \ {a} : /\ auditPc'[b] = auditPc[b]
                                     /\ audit'[b].found = audit[b].found
    BY <1>7, ReplaceTokensEffect DEF Written, Like, Others
  <2>3. QED BY <1>3, <2>1, <2>2
<1>8. ASSUME NEW a \in Auditors, BeginAudit(a) \/ ListServiceTokens(a)
      PROVE  SteadyInv'
  <2>1. UNCHANGED <<apps, auditAt>>
    BY <1>8 DEF BeginAudit, ListServiceTokens, auditTables
  <2>2. Others(a) /\ auditPc'[a] # "policies" /\ (auditPc'[a] \in Late => auditPc[a] \in Late)
    BY <1>8, BeginEffect, ListTokensEffect
  <2>3. QED BY <1>3, <2>1, <2>2 DEF Others
<1>9. ASSUME NEW a \in Auditors, SetAuditAt(a)
      PROVE  SteadyInv'
  <2>1. UNCHANGED apps /\ auditPc[a] \in Late
    BY <1>9 DEF SetAuditAt
  <2>2. Others(a) /\ auditPc'[a] # "policies"
    BY <1>9, SetAuditAtEffect
  <2>3. QED BY <1>3, <2>1, <2>2 DEF Others
<1>10. ASSUME NEW a \in Auditors, ListNotificationPolicies(a) \/ ReadTunnels(a) \/ SaveCoverage(a)
       PROVE  SteadyInv'
  <2>1. UNCHANGED <<apps, auditAt>>
    BY <1>10 DEF ListNotificationPolicies, ReadTunnels, SaveCoverage, auditTables
  <2>2. /\ auditPc'[a] # "policies" /\ auditPc'[a] \notin Late
        /\ \A b \in Auditors \ {a} : /\ auditPc'[b] = auditPc[b]
                                     /\ audit'[b].found = audit[b].found
    BY <1>10, ListAlertsEffect, ReadTunnelsEffect, SaveCoverageEffect DEF Others, Like
  <2>3. QED BY <1>3, <2>1, <2>2
<1>11. CASE AccountChanges \/ \E t \in Tunnels : PollStores(t)
  BY <1>2, <1>11, UnsettleEffect DEF Like, SteadyInv
<1>12. CASE AuditStill
  BY <1>12 DEF AuditStill, auditTables, SteadyInv
<1>13. CASE Death
  <2>1. UNCHANGED <<apps, auditAt>> /\ \A a \in Auditors : auditPc'[a] = "idle"
    BY <1>13, DeathEffect DEF Death, auditTables
  <2>2. QED BY <1>2, <2>1 DEF SteadyInv
<1>14. QED
  BY <1>4, <1>5, <1>6, <1>7, <1>8, <1>9, <1>10, <1>11, <1>12, <1>13, MoveCases DEF AuditStep

LEMMA SteadyInit == AuditInit => SteadyInv
<1> SUFFICES ASSUME AuditInit PROVE SteadyInv
  OBVIOUS
<1>1. \A a \in Auditors : auditPc[a] = "idle"
  BY DEF AuditInit
<1>2. auditAt => Complete(apps)
  BY AuditTypesInit, ListedFits DEF AuditInit, NewDatabase, AuditedDatabase
<1>3. QED BY <1>1, <1>2 DEF SteadyInv

LEMMA NeverStep ==
  ASSUME AuditTypes, NeverInv, AuditMove
  PROVE  NeverInv'
<1>1. Modest(apps) /\ \A b \in Auditors : Modest(audit[b].found)
  BY DEF NeverInv
<1>2. Modest(NoAudit.found) /\ Modest(Listed)
  BY NoRowsModest, ListedFits
<1>3. ASSUME NEW a \in Auditors, ListPolicies(a)
      PROVE  NeverInv'
  <2>1. UNCHANGED apps
    BY <1>3 DEF ListPolicies, auditTables
  <2>2. Others(a) /\ Protected(audit'[a].found) = Protected(audit[a].found)
    BY <1>3, ListPoliciesEffect
  <2>3. Modest(audit'[a].found)
    BY <1>1, <2>2 DEF Modest
  <2>4. QED BY <1>1, <2>1, <2>2, <2>3 DEF NeverInv, Others
<1>4. ASSUME NEW a \in Auditors, ListApps(a)
      PROVE  NeverInv'
  <2>1. UNCHANGED apps
    BY <1>4 DEF ListApps, auditTables
  <2>2. Others(a) /\ (audit'[a].found = Listed \/ audit'[a] = NoAudit)
    BY <1>4, ListAppsEffect
  <2>3. QED BY <1>1, <1>2, <2>1, <2>2 DEF NeverInv, Others
<1>5. ASSUME NEW a \in Auditors, ReplaceAccessApps(a) \/ ReplaceServiceTokens(a)
      PROVE  NeverInv'
  <2>1. apps' = apps \/ apps' = audit[a].found
    BY <1>5, ReplaceAppsEffect DEF ReplaceServiceTokens
  <2>2. \A b \in Auditors : audit'[b].found = audit[b].found \/ audit'[b] = NoAudit
    BY <1>5, ReplaceAppsEffect, ReplaceTokensEffect DEF Written, Like, Others
  <2>3. QED BY <1>1, <1>2, <2>1, <2>2 DEF NeverInv
<1>6. ASSUME NEW a \in Auditors,
             \/ BeginAudit(a) \/ ListServiceTokens(a) \/ SetAuditAt(a)
             \/ ListNotificationPolicies(a) \/ ReadTunnels(a) \/ SaveCoverage(a)
      PROVE  NeverInv'
  <2>1. UNCHANGED apps
    BY <1>6 DEF BeginAudit, ListServiceTokens, SetAuditAt, ListNotificationPolicies, ReadTunnels,
       SaveCoverage, auditTables
  <2>2. \A b \in Auditors : audit'[b].found = audit[b].found \/ audit'[b] = NoAudit
    BY <1>6, BeginEffect, ListTokensEffect, SetAuditAtEffect, ListAlertsEffect, ReadTunnelsEffect,
       SaveCoverageEffect DEF Like, Others
  <2>3. QED BY <1>1, <1>2, <2>1, <2>2 DEF NeverInv
<1>7. CASE AccountChanges \/ \E t \in Tunnels : PollStores(t)
  BY <1>1, <1>7, UnsettleEffect DEF Like, NeverInv
<1>8. CASE AuditStill
  BY <1>8 DEF AuditStill, auditTables, NeverInv
<1>9. CASE Death
  BY <1>1, <1>2, <1>9, DeathEffect DEF Death, auditTables, NeverInv
<1>10. QED BY <1>3, <1>4, <1>5, <1>6, <1>7, <1>8, <1>9, MoveCases DEF AuditStep

LEMMA NeverInit == AuditInit => NeverInv
<1> SUFFICES ASSUME AuditInit PROVE NeverInv
  OBVIOUS
<1>1. Modest(apps)
  BY AuditTypesInit, ListedFits, NoRowsModest DEF AuditInit, NewDatabase, AuditedDatabase
<1>2. QED BY <1>1, NoRowsModest DEF NeverInv, AuditInit

-----------------------------------------------------------------------------
(* What an audit that nothing has spoilt has read and written so far.      *)

AfterApps == {"tokens", "saveTokens", "auditAt", "alerts", "tunnels", "saveCoverage"}
AfterTokens == {"auditAt", "alerts", "tunnels", "saveCoverage"}
AfterAuditAt == {"alerts", "tunnels", "saveCoverage"}

\* What a clean audit has read is what the account holds, and so is what it
\* has written, by itself or by an audit as clean as it is.
Faithful(a) ==
  /\ audit[a].readable
  /\ auditPc[a] = "policies" =>
       \A i \in Apps :
         audit[a].found[i] = (IF i \in audit[a].todo THEN Listed ELSE AppsOf(account))[i]
  /\ auditPc[a] \in AfterApps => apps = AppsOf(account)
  /\ auditPc[a] = "saveTokens" => audit[a].tokens = account.tokens
  /\ auditPc[a] \in AfterTokens => tokens = account.tokens
  /\ auditPc[a] = "tunnels" => audit[a].policies = account.alerts
  /\ auditPc[a] = "saveCoverage" =>
       audit[a].covered = {t \in tunnels : AlertedOn(account.alerts, t)}

Honest(a) ==
  /\ auditPc[a] \in {"idle", "apps"} => audit[a].found = NoAudit.found /\ audit[a].readable
  /\ auditPc[a] \in AfterAuditAt => auditAt
  /\ audit[a].clean => Faithful(a)

SettleInv == InventorySettles /\ \A a \in Auditors : Honest(a)

\* The world stands, and a table is left alone or gets what the account holds.
Tidy ==
  /\ UNCHANGED <<account, tunnels>>
  /\ UNCHANGED apps \/ apps' = AppsOf(account)
  /\ UNCHANGED tokens \/ tokens' = account.tokens

\* An audit that rests stays honest when what is written beside it is tidy, or
\* spoils it.
LEMMA HonestKept ==
  ASSUME NEW b \in Auditors, Honest(b), auditPc'[b] = auditPc[b], Like(audit'[b], audit[b]),
         auditAt => auditAt', audit'[b].clean => audit[b].clean /\ Tidy
  PROVE  Honest(b)'
<1>1. ASSUME audit'[b].clean PROVE Faithful(b)'
  <2>1. Faithful(b) /\ Tidy
    BY <1>1 DEF Honest
  <2>2. AppsOf(account)' = AppsOf(account) /\ Listed' = Listed
    BY <2>1 DEF Tidy, AppsOf, Listed
  <2>3. audit'[b].covered = audit[b].covered /\ audit'[b].found = audit[b].found
        /\ audit'[b].todo = audit[b].todo /\ audit'[b].tokens = audit[b].tokens
        /\ audit'[b].policies = audit[b].policies /\ audit'[b].readable = audit[b].readable
    BY DEF Like
  <2>4. QED BY <2>1, <2>2, <2>3 DEF Faithful, Tidy
<1>2. QED BY <1>1 DEF Honest, Like

\* An audit that has ended is honest: it has nothing to say.
LEMMA NoAuditHonest ==
  ASSUME NEW a \in Auditors, auditPc'[a] = "idle", audit'[a] = NoAudit
  PROVE  Honest(a)'
BY DEF Honest, NoAudit, AfterAuditAt

\* Tables that have settled stay settled when what is written is tidy.
LEMMA SettledKept ==
  ASSUME InventorySettles, settled' => settled /\ Tidy /\ UNCHANGED coverage, auditAt => auditAt'
  PROVE  InventorySettles'
<1>1. SUFFICES ASSUME settled' PROVE InventorySettles'
  BY DEF InventorySettles
<1>2. settled /\ Tidy /\ UNCHANGED coverage
  BY <1>1
<1>3. AppsOf(account)' = AppsOf(account)
  BY <1>2 DEF Tidy, AppsOf
<1>4. QED BY <1>2, <1>3 DEF InventorySettles, Tidy

\* A step of one audit: it is honest after the step, and what it has written
\* is tidy or has spoilt the others.
LEMMA SettleAlone ==
  ASSUME SettleInv, NEW a \in Auditors, Honest(a)', auditAt => auditAt',
         \A b \in Auditors \ {a} :
           /\ auditPc'[b] = auditPc[b] /\ Like(audit'[b], audit[b])
           /\ audit'[b].clean => audit[b].clean /\ Tidy,
         InventorySettles'
  PROVE  SettleInv'
<1>1. ASSUME NEW b \in Auditors \ {a} PROVE Honest(b)'
  BY <1>1, HonestKept DEF SettleInv
<1>2. QED BY <1>1 DEF SettleInv

\* The steps that only read.
LEMMA ReadsSettle ==
  ASSUME AuditTypes, SettleInv, NEW a \in Auditors,
         \/ BeginAudit(a) \/ ListApps(a) \/ ListPolicies(a) \/ ListServiceTokens(a)
         \/ ListNotificationPolicies(a) \/ ReadTunnels(a)
  PROVE  SettleInv'
<1>1. /\ UNCHANGED <<account, tunnels, apps, tokens, auditAt, coverage, settled>>
      /\ Others(a)
  BY BeginEffect, ListAppsEffect, ListPoliciesEffect, ListTokensEffect, ListAlertsEffect,
     ReadTunnelsEffect
  DEF BeginAudit, ListApps, ListPolicies, ListServiceTokens, ListNotificationPolicies,
      ReadTunnels, auditTables
<1>2. Honest(a) /\ AppsOf(account)' = AppsOf(account) /\ Listed' = Listed
  BY <1>1 DEF SettleInv, AppsOf, Listed
<1>3. Honest(a)'
  <2>1. CASE BeginAudit(a)
    BY <1>1, <1>2, <2>1, BeginEffect DEF Honest, Faithful, Like, AfterApps, AfterTokens, AfterAuditAt
  <2>2. CASE ListApps(a)
    <3>1. CASE auditPc'[a] = "idle" /\ audit'[a] = NoAudit
      BY <3>1, NoAuditHonest
    <3>2. CASE /\ auditPc[a] = "apps" /\ auditPc'[a] = "policies"
               /\ audit'[a].todo = Present(account.apps) /\ audit'[a].found = Listed
               /\ audit'[a].readable = audit[a].readable
      <4>1. audit[a].readable
        BY <1>2, <3>2 DEF Honest
      <4>2. \A i \in Apps :
              audit'[a].found[i] = (IF i \in audit'[a].todo THEN Listed ELSE AppsOf(account))[i]
        BY <3>2 DEF AppsOf, Listed, Present
      <4>3. QED
        BY <1>2, <3>2, <4>1, <4>2 DEF Honest, Faithful, AfterApps, AfterTokens, AfterAuditAt
    <3>3. QED BY <2>2, <3>1, <3>2, ListAppsEffect
  <2>3. CASE ListPolicies(a)
    <3>1. auditPc[a] = "policies" /\ auditPc'[a] = "policies" /\ audit'[a].readable = audit[a].readable
      BY <2>3, ListPoliciesEffect
    <3>2. ASSUME audit'[a].clean
          PROVE  /\ audit'[a].readable
                 /\ \A i \in Apps :
                      audit'[a].found[i] = (IF i \in audit'[a].todo THEN Listed ELSE AppsOf(account))[i]
      <4>1. PICK i \in audit[a].todo :
              /\ audit'[a].todo = audit[a].todo \ {i}
              /\ \A j \in Apps \ {i} : audit'[a].found[j] = audit[a].found[j]
              /\ audit[a].clean /\ account.apps[i] # NoApp
              /\ audit'[a].found[i] = Summarised(audit[a].found[i], account.apps[i].policies)
        BY <2>3, <3>2, ListPoliciesEffect
      <4>2. i \in Apps
        BY DEF AuditTypes, AuditRec, AuditVariables
      <4>3. Faithful(a)
        BY <1>2, <4>1 DEF Honest
      <4>4. audit[a].found[i] = Listed[i]
        BY <3>1, <4>2, <4>3 DEF Faithful
      <4>5. Listed[i] = Unsummarised(account.apps[i])
        BY <4>1, <4>2 DEF Listed
      <4>6. audit'[a].found[i] = AppsOf(account)[i]
        BY <4>1, <4>2, <4>4, <4>5 DEF AppsOf
      <4>7. QED BY <3>1, <4>1, <4>3, <4>6 DEF Faithful
    <3>3. QED BY <1>2, <3>1, <3>2 DEF Honest, Faithful, AfterApps, AfterTokens, AfterAuditAt
  <2>4. CASE ListServiceTokens(a)
    BY <1>1, <1>2, <2>4, ListTokensEffect DEF Honest, Faithful, AfterApps, AfterTokens, AfterAuditAt
  <2>5. CASE ListNotificationPolicies(a)
    BY <1>1, <1>2, <2>5, ListAlertsEffect DEF Honest, Faithful, AfterApps, AfterTokens, AfterAuditAt
  <2>6. CASE ReadTunnels(a)
    <3>1. CASE auditPc'[a] = "idle" /\ audit'[a] = NoAudit
      BY <3>1, NoAuditHonest
    <3>2. CASE /\ auditPc[a] = "tunnels" /\ auditPc'[a] = "saveCoverage"
               /\ audit'[a].covered = {t \in tunnels : AlertedOn(audit[a].policies, t)}
               /\ audit'[a].clean = audit[a].clean /\ audit'[a].readable = audit[a].readable
      <4>1. audit[a].clean => audit'[a].covered = {t \in tunnels : AlertedOn(account.alerts, t)}
        BY <1>2, <3>2 DEF Honest, Faithful
      <4>2. QED
        BY <1>1, <1>2, <3>2, <4>1 DEF Honest, Faithful, AfterApps, AfterTokens, AfterAuditAt
    <3>3. QED BY <2>6, <3>1, <3>2, ReadTunnelsEffect
  <2>7. QED BY <2>1, <2>2, <2>3, <2>4, <2>5, <2>6
<1>4. InventorySettles'
  BY <1>1, SettledKept DEF SettleInv, Tidy
<1>5. QED BY <1>1, <1>3, <1>4, SettleAlone DEF Others, Like, Tidy

\* The steps that write.
LEMMA ReplaceAppsSettle ==
  ASSUME AuditTypes, SettleInv, NEW a \in Auditors, ReplaceAccessApps(a)
  PROVE  SettleInv'
<1>1. UNCHANGED <<account, tunnels, tokens, auditAt, coverage>> /\ auditPc[a] = "policies"
  BY DEF ReplaceAccessApps
<1>2. Honest(a) /\ AppsOf(account)' = AppsOf(account) /\ Listed' = Listed
  BY <1>1 DEF SettleInv, AppsOf, Listed
<1>3. CASE UNCHANGED <<apps, settled>> /\ auditPc'[a] = "idle" /\ audit'[a] = NoAudit /\ Others(a)
  <2>1. Honest(a)'
    BY <1>3, NoAuditHonest
  <2>2. InventorySettles'
    BY <1>1, <1>3, SettledKept DEF SettleInv, Tidy
  <2>3. QED BY <1>1, <1>3, <2>1, <2>2, SettleAlone DEF Others, Like, Tidy
<1>4. CASE /\ apps' = audit[a].found /\ audit[a].todo = {}
           /\ auditPc'[a] = "tokens" /\ Written(a)
           /\ \A b \in Auditors \ {a} : auditPc'[b] = auditPc[b]
  <2>1. ASSUME audit[a].clean PROVE apps' = AppsOf(account) /\ audit[a].readable
    <3>1. \A i \in Apps : audit[a].found[i] = AppsOf(account)[i]
      BY <1>1, <1>2, <1>4, <2>1 DEF Honest, Faithful
    <3>2. audit[a].found \in [Apps -> Summary \cup {NoApp}] /\ AppsOf(account) \in [Apps -> Summary \cup {NoApp}]
      BY AccountTypes DEF AuditTypes, AuditRec, AuditVariables
    <3>3. QED BY <1>1, <1>2, <1>4, <2>1, <3>1, <3>2 DEF Honest, Faithful
  <2>2. Tidy \/ ~audit[a].clean
    BY <1>1, <2>1 DEF Tidy
  <2>3. \A b \in Auditors : Like(audit'[b], audit[b]) /\ (audit'[b].clean => audit[b].clean /\ audit[a].clean)
    BY <1>4 DEF Written, Like
  <2>4. Honest(a)'
    BY <1>2, <1>4, <2>1, <2>3 DEF Honest, Faithful, Like, AfterApps, AfterTokens, AfterAuditAt
  <2>5. settled' => settled /\ audit[a].clean
    BY <1>4 DEF Written
  <2>6. InventorySettles'
    BY <1>1, <2>2, <2>5, SettledKept DEF SettleInv
  <2>7. QED BY <1>1, <1>4, <2>2, <2>3, <2>4, <2>6, SettleAlone
<1>5. QED BY <1>3, <1>4, ReplaceAppsEffect

LEMMA ReplaceTokensSettle ==
  ASSUME AuditTypes, SettleInv, NEW a \in Auditors, ReplaceServiceTokens(a)
  PROVE  SettleInv'
<1>1. UNCHANGED <<account, tunnels, apps, auditAt, coverage>> /\ auditPc[a] = "saveTokens"
  BY DEF ReplaceServiceTokens
<1>2. Honest(a) /\ AppsOf(account)' = AppsOf(account) /\ Listed' = Listed
  BY <1>1 DEF SettleInv, AppsOf, Listed
<1>3. CASE UNCHANGED <<tokens, settled>> /\ auditPc'[a] = "idle" /\ audit'[a] = NoAudit /\ Others(a)
  <2>1. Honest(a)'
    BY <1>3, NoAuditHonest
  <2>2. InventorySettles'
    BY <1>1, <1>3, SettledKept DEF SettleInv, Tidy
  <2>3. QED BY <1>1, <1>3, <2>1, <2>2, SettleAlone DEF Others, Like, Tidy
<1>4. CASE /\ tokens' = audit[a].tokens /\ auditPc'[a] = "auditAt" /\ Written(a)
           /\ \A b \in Auditors \ {a} : auditPc'[b] = auditPc[b]
  <2>1. audit[a].clean => tokens' = account.tokens /\ audit[a].readable /\ apps = AppsOf(account)
    BY <1>1, <1>2, <1>4 DEF Honest, Faithful, AfterApps
  <2>2. Tidy \/ ~audit[a].clean
    BY <1>1, <2>1 DEF Tidy
  <2>3. \A b \in Auditors : Like(audit'[b], audit[b]) /\ (audit'[b].clean => audit[b].clean /\ audit[a].clean)
    BY <1>4 DEF Written, Like
  <2>4. Honest(a)'
    BY <1>1, <1>2, <1>4, <2>1, <2>3 DEF Honest, Faithful, Like, AfterApps, AfterTokens, AfterAuditAt
  <2>5. settled' => settled /\ audit[a].clean
    BY <1>4 DEF Written
  <2>6. InventorySettles'
    BY <1>1, <2>2, <2>5, SettledKept DEF SettleInv
  <2>7. QED BY <1>1, <1>4, <2>2, <2>3, <2>4, <2>6, SettleAlone
<1>5. QED BY <1>3, <1>4, ReplaceTokensEffect

LEMMA SetAuditAtSettle ==
  ASSUME AuditTypes, SettleInv, NEW a \in Auditors, SetAuditAt(a)
  PROVE  SettleInv'
<1>1. UNCHANGED <<account, tunnels, apps, tokens, coverage, settled>> /\ (auditAt => auditAt')
  BY DEF SetAuditAt
<1>2. Honest(a) /\ AppsOf(account)' = AppsOf(account) /\ Listed' = Listed
  BY <1>1 DEF SettleInv, AppsOf, Listed
<1>3. Honest(a)'
  <2>1. CASE auditPc'[a] = "idle" /\ audit'[a] = NoAudit
    BY <2>1, NoAuditHonest
  <2>2. CASE auditAt' /\ auditPc'[a] = "alerts" /\ audit' = audit
    BY <1>1, <1>2, <2>2, SetAuditAtEffect DEF Honest, Faithful, AfterApps, AfterTokens, AfterAuditAt
  <2>3. QED BY <2>1, <2>2, SetAuditAtEffect
<1>4. InventorySettles'
  BY <1>1, SettledKept DEF SettleInv, Tidy
<1>5. Others(a)
  BY SetAuditAtEffect
<1>6. QED BY <1>1, <1>3, <1>4, <1>5, SettleAlone DEF Others, Like, Tidy

LEMMA SaveCoverageSettle ==
  ASSUME AuditTypes, SettleInv, NEW a \in Auditors, SaveCoverage(a)
  PROVE  SettleInv'
<1>1. UNCHANGED <<account, tunnels, apps, tokens, auditAt>> /\ auditPc[a] = "saveCoverage"
  BY DEF SaveCoverage
<1>2. Honest(a) /\ AppsOf(account)' = AppsOf(account) /\ Tidy
  BY <1>1 DEF SettleInv, AppsOf, Tidy
<1>3. Honest(a)'
  BY SaveCoverageEffect, NoAuditHonest
<1>4. \A b \in Auditors \ {a} :
        /\ auditPc'[b] = auditPc[b] /\ Like(audit'[b], audit[b])
        /\ audit'[b].clean => audit[b].clean
  BY SaveCoverageEffect DEF Others, Like
<1>5. InventorySettles'
  <2>1. CASE UNCHANGED <<coverage, settled>>
    BY <1>1, <1>2, <2>1, SettledKept DEF SettleInv
  <2>2. CASE /\ coverage' = [readable |-> audit[a].readable, covered |-> audit[a].covered]
             /\ settled' = audit[a].clean
    <3>1. SUFFICES ASSUME audit[a].clean PROVE InventorySettles'
      BY <2>2 DEF InventorySettles
    <3>2. audit[a].readable = TRUE
      BY <1>2, <3>1 DEF Honest, Faithful, AuditTypes, AuditRec, AuditVariables
    <3>3. /\ auditAt /\ apps = AppsOf(account) /\ tokens = account.tokens
          /\ audit[a].covered = {t \in tunnels : AlertedOn(account.alerts, t)}
      BY <1>1, <1>2, <3>1 DEF Honest, Faithful, AfterApps, AfterTokens, AfterAuditAt
    <3>4. QED BY <1>1, <1>2, <2>2, <3>2, <3>3 DEF InventorySettles
  <2>3. QED BY <2>1, <2>2, SaveCoverageEffect
<1>6. QED BY <1>1, <1>2, <1>3, <1>4, <1>5, SettleAlone

LEMMA SettleStep ==
  ASSUME AuditTypes, SettleInv, AuditMove
  PROVE  SettleInv'
<1>1. ASSUME NEW a \in Auditors, AuditStep(a) PROVE SettleInv'
  BY <1>1, ReadsSettle, ReplaceAppsSettle, ReplaceTokensSettle, SetAuditAtSettle, SaveCoverageSettle
  DEF AuditStep
<1>2. CASE AccountChanges \/ \E t \in Tunnels : PollStores(t)
  <2>1. /\ ~settled' /\ UNCHANGED <<auditPc, apps, tokens, auditAt, coverage>>
        /\ \A b \in Auditors : Like(audit'[b], audit[b]) /\ ~audit'[b].clean
    BY <1>2, UnsettleEffect
  <2>2. ASSUME NEW b \in Auditors PROVE Honest(b)'
    <3>1. Honest(b)
      BY DEF SettleInv
    <3>2. QED BY <2>1, <3>1, HonestKept
  <2>3. QED BY <2>1, <2>2 DEF SettleInv, InventorySettles
<1>3. CASE AuditStill \/ Death
  <2>1. UNCHANGED <<account, tunnels, apps, tokens, auditAt, coverage, settled>>
    BY <1>3 DEF AuditStill, Death, auditTables
  <2>2. InventorySettles'
    BY <2>1, SettledKept DEF SettleInv, Tidy
  <2>3. ASSUME NEW b \in Auditors PROVE Honest(b)'
    <3>1. CASE AuditStill
      BY <2>1, <3>1, HonestKept DEF AuditStill, Like, SettleInv, Tidy
    <3>2. CASE Death
      BY <3>2, DeathEffect, NoAuditHonest DEF Death
    <3>3. QED BY <1>3, <3>1, <3>2
  <2>4. QED BY <2>2, <2>3 DEF SettleInv
<1>4. QED BY <1>1, <1>2, <1>3, MoveCases

LEMMA SettleInit == AuditInit => SettleInv
BY DEF AuditInit, SettleInv, InventorySettles, Honest, NoAudit, AfterAuditAt

-----------------------------------------------------------------------------
(* The probe rounds beside the audits: every step of theirs leaves the     *)
(* audits alone or kills them with the process.                            *)

ProbeLabels == {"idle", "ingress", "auditAt", "apps", "previous", "probing", "save", "events"}

\* The results a round has found, of some of the hosts.
FoundResults == UNION {[S -> [class: Classes, at: Nat]] : S \in SUBSET Hosts}

ProbeRec ==
  [rules: Ingresses \cup {<<>>}, public: SUBSET Hosts, previous: [Hosts -> Classes \cup {NoResult}],
   found: FoundResults, informed: BOOLEAN, dead: BOOLEAN]

ProbeTypes ==
  /\ clock \in Nat /\ ingress \in Ingresses /\ disturbed \in BOOLEAN
  /\ results \in [Hosts -> StoredResult \cup {NoResult}]
  /\ lastEvent \in [Hosts -> Classes \cup {NoResult}]
  /\ probePc \in [Probers -> ProbeLabels]
  /\ probe \in [Probers -> ProbeRec]

\* What a round has learnt of the Access inventory.
TokenInv ==
  \A p \in Probers :
    /\ probe[p].public \cap Steady = {}
    /\ probe[p].informed \/ At(p, "apps") => auditAt
    /\ probe[p].informed /\ probePc[p] \in {"previous", "probing", "save", "events"} =>
         \A h \in Never \cap HostsOf(probe[p].rules) : h \in probe[p].public

\* No result is of the future.
ClockInv ==
  /\ \A h \in Hosts : results[h] # NoResult => results[h].at <= clock
  /\ \A p \in Probers : At(p, "save") =>
       \A h \in DOMAIN probe[p].found : probe[p].found[h].at <= clock

\* Where nothing has disturbed the rounds, they run one at a time, and the
\* events of the one between its two writes are all that is missing.
ReplayInv ==
  ~disturbed =>
    /\ \A p, q \in Probers : ~At(p, "idle") /\ ~At(q, "idle") => p = q
    /\ (\A p \in Probers : ~At(p, "events")) => \A h \in Hosts : Latest(h) = {lastEvent[h]}
    /\ \A p \in Probers :
         /\ probePc[p] \in {"probing", "save", "events"} => probe[p].previous = lastEvent
         /\ At(p, "save") => \A h \in DOMAIN probe[p].found :
              results[h] # NoResult => results[h].at <= probe[p].found[h].at
         /\ At(p, "events") => \A h \in Hosts :
              Latest(h) = IF h \in DOMAIN probe[p].found THEN {probe[p].found[h].class}
                          ELSE {lastEvent[h]}

\* The rounds leave the audits alone; the process takes them along.
LEMMA RoundsBesideAudits ==
  ASSUME [ProbeNext]_<<auditVars, probeVars>>
  PROVE  AuditMove
<1>1. ASSUME NEW p \in Probers, ProbeStep(p) PROVE AuditStill
  BY <1>1 DEF ProbeStep, BeginRound, ContextEnds, ReadIngress, ReadAuditAt, ReadApps, NothingToProbe,
     ReadPrevious, ProbeAll, SaveResults, AppendProbeEvents, WorldStands, auditVars, auditRuns, AuditStill
<1>2. CASE ProcessDies
  BY <1>2 DEF ProcessDies, AuditMove, Death
<1>3. CASE IngressChanges \/ SecondPasses \/ \E h \in Hosts : PathChanges(h)
  BY <1>3 DEF IngressChanges, SecondPasses, PathChanges, auditVars, auditRuns, AuditStill, AuditMove
<1>4. CASE UNCHANGED <<auditVars, probeVars>>
  BY <1>4 DEF auditVars, auditRuns, AuditStill, AuditMove
<1>5. CASE AuditNext
  BY <1>5 DEF AuditMove
<1>6. QED BY <1>1, <1>2, <1>3, <1>4, <1>5 DEF ProbeNext, RoundsNext, AuditMove

\* Once an audit has set its time, it stays set.
LEMMA AuditAtKept ==
  ASSUME AuditMove, auditAt
  PROVE  auditAt'
BY MoveCases DEF AuditStep, BeginAudit, ListApps, ListPolicies, ReplaceAccessApps, ListServiceTokens,
   ReplaceServiceTokens, SetAuditAt, ListNotificationPolicies, ReadTunnels, SaveCoverage,
   AccountChanges, PollStores, AuditStill, Death, auditTables

-----------------------------------------------------------------------------
(* The types of the rounds, and what each step does to the round's          *)
(* variables.                                                              *)

LEMMA NoProbeType == NoProbe \in ProbeRec
<1>1. <<>> \in [{} -> [class: Classes, at: Nat]]
  OBVIOUS
<1>2. <<>> \in FoundResults
  BY <1>1 DEF FoundResults
<1>3. QED BY <1>2 DEF NoProbe, ProbeRec

LEMMA RulesTypes ==
  ASSUME NEW rules \in Ingresses \cup {<<>>}
  PROVE  HostsOf(rules) \subseteq Hosts /\ DOMAIN Targets(rules, {}) \subseteq HostsOf(rules)
<1>1. CASE rules \in Ingresses
  <2>1. rules \in Seq(Rule)
    BY <1>1, IngressAssumption
  <2>2. \A i \in 1..Len(rules) : rules[i] \in Rule
    BY <2>1
  <2>3. \A rule \in Rule : rule.host \in Hosts
    BY DEF Rule
  <2>4. QED BY <2>2, <2>3 DEF HostsOf, Targets
<1>2. CASE rules = <<>>
  BY <1>2 DEF HostsOf, Targets
<1>3. QED BY <1>1, <1>2

LEMMA TargetTypes ==
  ASSUME ProbeTypes, NEW p \in Probers
  PROVE  /\ HostsOf(probe[p].rules) \subseteq Hosts
         /\ DOMAIN TargetsOf(p) \subseteq HostsOf(probe[p].rules)
         /\ \A h \in DOMAIN TargetsOf(p) :
              TargetsOf(p)[h] = (HasServiceToken /\ h \notin probe[p].public)
<1>1. probe[p].rules \in Ingresses \cup {<<>>}
  BY DEF ProbeTypes, ProbeRec
<1>2. DOMAIN TargetsOf(p) = DOMAIN Targets(probe[p].rules, {})
  BY DEF TargetsOf, Targets
<1>3. QED BY <1>1, <1>2, RulesTypes DEF TargetsOf, Targets

\* A step that changes the place and the variables of one round.
Turns(p, label, rec) ==
  /\ probePc' = [probePc EXCEPT ![p] = label]
  /\ probe' = [probe EXCEPT ![p] = rec]

Rest(p) == \A q \in Probers \ {p} : probePc'[q] = probePc[q] /\ probe'[q] = probe[q]

LEMMA TurnsTypes ==
  ASSUME ProbeTypes, NEW p \in Probers, NEW label \in ProbeLabels, NEW rec \in ProbeRec,
         Turns(p, label, rec)
  PROVE  /\ probePc' \in [Probers -> ProbeLabels] /\ probe' \in [Probers -> ProbeRec]
         /\ probePc'[p] = label /\ probe'[p] = rec /\ Rest(p)
BY DEF ProbeTypes, Turns, Rest

LEMMA RoundEndsTypes ==
  ASSUME ProbeTypes, NEW p \in Probers, RoundEnds(p)
  PROVE  /\ probePc' \in [Probers -> ProbeLabels] /\ probe' \in [Probers -> ProbeRec]
         /\ probePc'[p] = "idle" /\ probe'[p] = NoProbe /\ Rest(p)
<1>1. Turns(p, "idle", NoProbe) /\ "idle" \in ProbeLabels
  BY DEF RoundEnds, Continue, Turns, ProbeLabels
<1>2. QED BY <1>1, NoProbeType, TurnsTypes

\* What a step leaves of the tables and the world.
Quiet == UNCHANGED <<clock, ingress, results, lastEvent, disturbed>>

LEMMA BeginRoundEffect ==
  ASSUME AuditTypes, ProbeTypes, NEW p \in Probers, BeginRound(p)
  PROVE  /\ ProbeTypes' /\ Rest(p) /\ At(p, "idle") /\ probePc'[p] = "ingress"
         /\ probe'[p].informed = auditAt /\ probe'[p].public = probe[p].public
         /\ UNCHANGED <<clock, results, lastEvent>>
         /\ ~disturbed' => ~disturbed /\ \A q \in Probers : At(q, "idle")
<1> DEFINE rec == [probe[p] EXCEPT !.informed = auditAt]
<1>1. rec \in ProbeRec /\ rec.informed = auditAt /\ rec.public = probe[p].public
  BY DEF AuditTypes, ProbeTypes, ProbeRec
<1>2. Turns(p, "ingress", rec) /\ "ingress" \in ProbeLabels /\ At(p, "idle")
  BY DEF BeginRound, Continue, Turns, ProbeLabels
<1>3. UNCHANGED <<clock, ingress, results, lastEvent>>
  BY DEF BeginRound, probeTables
<1>4. disturbed' = (disturbed \/ \E q \in Probers : probePc[q] # "idle")
  BY DEF BeginRound
<1>5. disturbed' \in BOOLEAN
  BY <1>4
<1> HIDE DEF rec
<1>6. ProbeTypes' /\ Rest(p) /\ probePc'[p] = "ingress" /\ probe'[p] = rec
  BY <1>1, <1>2, <1>3, <1>5, TurnsTypes DEF ProbeTypes
<1>7. QED BY <1>1, <1>2, <1>3, <1>4, <1>6 DEF At

LEMMA ContextEndsEffect ==
  ASSUME ProbeTypes, NEW p \in Probers, ContextEnds(p)
  PROVE  /\ ProbeTypes' /\ Rest(p) /\ probePc' = probePc /\ Quiet
         /\ probe'[p] = [probe[p] EXCEPT !.dead = TRUE]
<1> DEFINE rec == [probe[p] EXCEPT !.dead = TRUE]
<1>1. rec \in ProbeRec
  BY DEF ProbeTypes, ProbeRec
<1>2. probe' = [probe EXCEPT ![p] = rec] /\ UNCHANGED probePc
  BY DEF ContextEnds
<1>3. Quiet
  BY DEF ContextEnds, WorldStands, Quiet
<1> HIDE DEF rec
<1>4. QED BY <1>1, <1>2, <1>3 DEF ProbeTypes, Rest, Quiet, rec

LEMMA ReadIngressEffect ==
  ASSUME ProbeTypes, NEW p \in Probers, ReadIngress(p)
  PROVE  /\ ProbeTypes' /\ Rest(p) /\ At(p, "ingress") /\ Quiet
         /\ \/ /\ probePc'[p] = "auditAt" /\ probe'[p].informed = probe[p].informed
               /\ probe'[p].public = probe[p].public
            \/ probePc'[p] = "idle" /\ probe'[p] = NoProbe
<1> DEFINE rec == [probe[p] EXCEPT !.rules = ingress]
<1>1. rec \in ProbeRec /\ rec.informed = probe[p].informed /\ rec.public = probe[p].public
  BY DEF ProbeTypes, ProbeRec
<1>2. (Turns(p, "auditAt", rec) \/ RoundEnds(p)) /\ At(p, "ingress")
  BY DEF ReadIngress, Continue, Turns
<1>3. Quiet /\ "auditAt" \in ProbeLabels
  BY DEF ReadIngress, WorldStands, Quiet, ProbeLabels
<1> HIDE DEF rec
<1>4. QED BY <1>1, <1>2, <1>3, TurnsTypes, RoundEndsTypes DEF ProbeTypes, Quiet

LEMMA ReadAuditAtEffect ==
  ASSUME ProbeTypes, NEW p \in Probers, ReadAuditAt(p)
  PROVE  /\ ProbeTypes' /\ Rest(p) /\ At(p, "auditAt") /\ Quiet
         /\ probe'[p].public = probe[p].public
         /\ \/ probePc'[p] = "apps" /\ auditAt /\ probe'[p] = probe[p]
            \/ probePc'[p] = "previous" /\ ~auditAt /\ probe'[p] = probe[p]
            \/ probePc'[p] = "previous" /\ ~probe'[p].informed
<1> DEFINE blind == [probe[p] EXCEPT !.informed = FALSE]
           next == IF InventoryKnown THEN "apps" ELSE "previous"
<1>1. blind \in ProbeRec /\ ~blind.informed /\ blind.public = probe[p].public /\ probe[p] \in ProbeRec
  BY DEF ProbeTypes, ProbeRec
<1>2. probe = [probe EXCEPT ![p] = probe[p]]
  BY DEF ProbeTypes
<1>3. Turns(p, next, probe[p]) \/ Turns(p, "previous", blind)
  BY <1>2 DEF ReadAuditAt, Continue, Turns
<1>4. Quiet /\ At(p, "auditAt")
  BY DEF ReadAuditAt, WorldStands, Quiet
<1>5. next \in ProbeLabels /\ "previous" \in ProbeLabels
  BY DEF ProbeLabels
<1>6. (next = "apps" /\ auditAt) \/ (next = "previous" /\ ~auditAt)
  BY DEF InventoryKnown
<1> HIDE DEF blind, next
<1>7. QED BY <1>1, <1>3, <1>4, <1>5, <1>6, TurnsTypes DEF ProbeTypes, Quiet

LEMMA ReadAppsEffect ==
  ASSUME ProbeTypes, NEW p \in Probers, ReadApps(p)
  PROVE  /\ ProbeTypes' /\ Rest(p) /\ At(p, "apps") /\ Quiet
         /\ \/ /\ probePc'[p] = "previous" /\ probe'[p].informed = probe[p].informed
               /\ probe'[p].public = Unprotected(probe[p].rules)
               /\ probe'[p].rules = probe[p].rules
            \/ probePc'[p] = "idle" /\ probe'[p] = NoProbe
<1> DEFINE public == Unprotected(probe[p].rules)
           rec == [probe[p] EXCEPT !.public = public]
<1>1. public \in SUBSET Hosts
  BY TargetTypes DEF Unprotected
<1>2. (Turns(p, "previous", rec) \/ RoundEnds(p)) /\ At(p, "apps")
  BY DEF ReadApps, Continue, Turns
<1> HIDE DEF public
<1>3. /\ rec \in ProbeRec /\ rec.informed = probe[p].informed /\ rec.public = public
      /\ rec.rules = probe[p].rules
  BY <1>1 DEF ProbeTypes, ProbeRec
<1>4. Quiet /\ "previous" \in ProbeLabels
  BY DEF ReadApps, WorldStands, Quiet, ProbeLabels
<1> HIDE DEF rec
<1>5. QED BY <1>2, <1>3, <1>4, TurnsTypes, RoundEndsTypes DEF ProbeTypes, Quiet, public

LEMMA NothingToProbeEffect ==
  ASSUME ProbeTypes, NEW p \in Probers, NothingToProbe(p)
  PROVE  /\ ProbeTypes' /\ Rest(p) /\ At(p, "previous") /\ Quiet
         /\ probePc'[p] = "idle" /\ probe'[p] = NoProbe
<1>1. RoundEnds(p) /\ At(p, "previous") /\ Quiet
  BY DEF NothingToProbe, WorldStands, Quiet
<1>2. QED BY <1>1, RoundEndsTypes DEF ProbeTypes, Quiet

\* The classes a host may be read to have.
LEMMA LatestTypes ==
  ASSUME ProbeTypes, NEW h \in Hosts
  PROVE  Latest(h) \subseteq Classes \cup {NoResult}
BY DEF ProbeTypes, Latest, StoredResult

LEMMA ReadPreviousEffect ==
  ASSUME ProbeTypes, NEW p \in Probers, ReadPrevious(p)
  PROVE  /\ ProbeTypes' /\ Rest(p) /\ At(p, "previous") /\ Quiet
         /\ \/ /\ probePc'[p] = "probing" /\ probe'[p].informed = probe[p].informed
               /\ probe'[p].public = probe[p].public /\ probe'[p].rules = probe[p].rules
               /\ \A h \in Hosts : probe'[p].previous[h] \in Latest(h)
            \/ probePc'[p] = "idle" /\ probe'[p] = NoProbe
<1>1. At(p, "previous") /\ Quiet /\ "probing" \in ProbeLabels
  BY DEF ReadPrevious, WorldStands, Quiet, ProbeLabels
<1>2. CASE RoundEnds(p)
  BY <1>1, <1>2, RoundEndsTypes DEF ProbeTypes, Quiet
<1>3. ASSUME NEW prev \in [Hosts -> UNION {Latest(h) : h \in Hosts}],
             \A h \in Hosts : prev[h] \in Latest(h),
             probe' = [probe EXCEPT ![p].previous = prev], Continue(p, "probing")
      PROVE  /\ ProbeTypes' /\ Rest(p) /\ probePc'[p] = "probing"
             /\ probe'[p].informed = probe[p].informed
             /\ probe'[p].public = probe[p].public /\ probe'[p].rules = probe[p].rules
             /\ \A h \in Hosts : probe'[p].previous[h] \in Latest(h)
  <2> DEFINE rec == [probe[p] EXCEPT !.previous = prev]
  <2>1. prev \in [Hosts -> Classes \cup {NoResult}]
    BY <1>3, LatestTypes
  <2>2. /\ rec \in ProbeRec /\ rec.previous = prev /\ rec.informed = probe[p].informed
        /\ rec.public = probe[p].public /\ rec.rules = probe[p].rules
    BY <2>1 DEF ProbeTypes, ProbeRec
  <2>3. Turns(p, "probing", rec)
    BY <1>3 DEF Continue, Turns
  <2> HIDE DEF rec
  <2>4. /\ probePc' \in [Probers -> ProbeLabels] /\ probe' \in [Probers -> ProbeRec]
        /\ probePc'[p] = "probing" /\ probe'[p] = rec /\ Rest(p)
    BY <1>1, <2>2, <2>3, TurnsTypes
  <2>5. ProbeTypes'
    BY <1>1, <2>4 DEF ProbeTypes, Quiet
  <2>6. QED BY <1>3, <2>2, <2>4, <2>5
<1>4. QED BY <1>1, <1>2, <1>3 DEF ReadPrevious

LEMMA OutcomeTypes ==
  ASSUME NEW h, NEW token, NEW dead
  PROVE  Outcomes(h, token, dead) \subseteq Classes
<1>1. \A r : Classify(r) \in Classes
  BY DEF Classify, Classes
<1>2. QED BY <1>1 DEF Outcomes, Classes

LEMMA ProbeAllEffect ==
  ASSUME ProbeTypes, NEW p \in Probers, ProbeAll(p)
  PROVE  /\ ProbeTypes' /\ Rest(p) /\ At(p, "probing") /\ Quiet /\ probePc'[p] = "save"
         /\ probe'[p].informed = probe[p].informed /\ probe'[p].public = probe[p].public
         /\ probe'[p].rules = probe[p].rules /\ probe'[p].previous = probe[p].previous
         /\ \A h \in DOMAIN probe'[p].found : h \in Hosts /\ probe'[p].found[h].at = clock
<1>1. At(p, "probing") /\ Quiet /\ "save" \in ProbeLabels /\ Continue(p, "save")
  BY DEF ProbeAll, WorldStands, Quiet, ProbeLabels
<1> DEFINE hosts == DOMAIN TargetsOf(p)
           of(h) == Outcomes(h, TargetsOf(p)[h], probe[p].dead)
<1>2. hosts \in SUBSET Hosts
  BY TargetTypes
<1>3. PICK classes \in [hosts -> UNION {of(h) : h \in hosts}] :
        probe' = [probe EXCEPT ![p].found = [h \in hosts |-> [class |-> classes[h], at |-> clock]]]
  BY DEF ProbeAll
<1>4. classes \in [hosts -> Classes]
  BY <1>3, OutcomeTypes
<1> DEFINE found == [h \in hosts |-> [class |-> classes[h], at |-> clock]]
           rec == [probe[p] EXCEPT !.found = found]
<1>5. Turns(p, "save", rec)
  BY <1>1, <1>3 DEF Continue, Turns
<1> HIDE DEF hosts
<1>6. found \in [hosts -> [class: Classes, at: Nat]]
  BY <1>4 DEF ProbeTypes
<1>7. found \in FoundResults
  BY <1>2, <1>6 DEF FoundResults
<1>8. \A h \in DOMAIN found : h \in Hosts /\ found[h].at = clock
  BY <1>2
<1> HIDE DEF found
<1>9. /\ rec \in ProbeRec /\ rec.found = found /\ rec.informed = probe[p].informed
      /\ rec.public = probe[p].public /\ rec.rules = probe[p].rules
      /\ rec.previous = probe[p].previous
  BY <1>7 DEF ProbeTypes, ProbeRec
<1> HIDE DEF rec
<1>10. QED BY <1>1, <1>5, <1>8, <1>9, TurnsTypes DEF ProbeTypes, Quiet

\* What AddProbeResults makes of a host's results: the latest second's.
LEMMA StoredTypes ==
  ASSUME ProbeTypes, NEW h \in Hosts, NEW new \in [class: Classes, at: Nat]
  PROVE  /\ Stored(h, new) \in StoredResult /\ Stored(h, new) # NoResult
         /\ Stored(h, new).at = new.at \/ (results[h] # NoResult /\ Stored(h, new).at = results[h].at)
         /\ (results[h] # NoResult => results[h].at <= new.at) => new.class \in Stored(h, new).classes
<1>1. results[h] = NoResult \/ results[h] \in StoredResult
  BY DEF ProbeTypes
<1>2. new.at \in Nat /\ new.class \in Classes
  OBVIOUS
<1> DEFINE first == [at |-> new.at, classes |-> {new.class}]
<1>3. first \in StoredResult /\ first.at = new.at /\ new.class \in first.classes
  BY <1>2 DEF StoredResult
<1>4. CASE results[h] = NoResult
  BY <1>3, <1>4, NoResultAssumption DEF Stored
<1>5. CASE results[h] \in StoredResult
  <2> DEFINE classes == results[h].classes \cup {new.class}
             both == [results[h] EXCEPT !.classes = classes]
  <2>1. results[h] # NoResult /\ results[h].at \in Nat
    BY <1>5, NoResultAssumption DEF StoredResult
  <2>2. classes \in (SUBSET Classes) \ {{}} /\ new.class \in classes
    BY <1>2, <1>5 DEF StoredResult
  <2> HIDE DEF classes
  <2>3. both \in StoredResult /\ both.at = results[h].at /\ new.class \in both.classes
    BY <1>5, <2>2 DEF StoredResult
  <2>4. Stored(h, new) = IF new.at > results[h].at THEN first
                         ELSE IF new.at = results[h].at THEN both ELSE results[h]
    BY <1>2, <2>1 DEF Stored, classes
  <2> HIDE DEF both, first
  <2>5. QED BY <1>2, <1>3, <1>5, <2>1, <2>3, <2>4, NoResultAssumption
<1>6. QED BY <1>1, <1>4, <1>5

\* The results of one second that do not disagree have one class.
LEMMA SingleClass ==
  ASSUME NEW classes \in SUBSET Classes, NEW class \in classes, ~(Cardinality(classes) > 1)
  PROVE  classes = {class}
<1> DEFINE two == {"ok"} \cup {"access_challenge"}
           three == two \cup {"access_denied"}
           four == three \cup {"edge_cached"}
           five == four \cup {"tunnel_down"}
           six == five \cup {"origin_error"}
<1>1. Classes = six \cup {"timeout"}
  BY DEF Classes
<1>2. IsFiniteSet({"ok"})
  BY FS_Singleton
<1> HIDE DEF six, five, four, three, two
<1>3. IsFiniteSet(two)
  BY <1>2, FS_AddElement DEF two
<1>4. IsFiniteSet(three)
  BY <1>3, FS_AddElement DEF three
<1>5. IsFiniteSet(four)
  BY <1>4, FS_AddElement DEF four
<1>6. IsFiniteSet(five)
  BY <1>5, FS_AddElement DEF five
<1>7. IsFiniteSet(six)
  BY <1>6, FS_AddElement DEF six
<1>8. IsFiniteSet(Classes)
  BY <1>1, <1>7, FS_AddElement
<1>9. IsFiniteSet(classes) /\ Cardinality(classes) \in Nat
  BY <1>8, FS_Subset, FS_CardinalityType
<1>10. Cardinality(classes) # 0
  BY <1>9, FS_EmptySet
<1>11. Cardinality(classes) = 1
  BY <1>9, <1>10
<1>12. PICK x : classes = {x}
  BY <1>9, <1>11, FS_Singleton
<1>13. QED BY <1>12

LEMMA SaveResultsEffect ==
  ASSUME ProbeTypes, NEW p \in Probers, SaveResults(p)
  PROVE  /\ ProbeTypes' /\ Rest(p) /\ At(p, "save") /\ UNCHANGED <<clock, lastEvent>>
         /\ \/ /\ probePc'[p] = "events" /\ probe' = probe
               /\ \A h \in Hosts : results'[h] =
                    IF h \in DOMAIN probe[p].found THEN Stored(h, probe[p].found[h]) ELSE results[h]
               /\ ~disturbed' =>
                    ~disturbed /\ \A h \in DOMAIN probe[p].found : ~(Cardinality(results'[h].classes) > 1)
            \/ UNCHANGED <<results, disturbed>> /\ probePc'[p] = "idle" /\ probe'[p] = NoProbe
<1> DEFINE found == probe[p].found
<1>1. At(p, "save") /\ UNCHANGED <<clock, ingress, lastEvent>> /\ "events" \in ProbeLabels
  BY DEF SaveResults, WorldStands, ProbeLabels
<1>2. CASE RoundEnds(p) /\ UNCHANGED <<results, disturbed>>
  BY <1>1, <1>2, RoundEndsTypes DEF ProbeTypes
<1>3. CASE /\ results' = [h \in Hosts |-> IF h \in DOMAIN found THEN Stored(h, found[h]) ELSE results[h]]
           /\ disturbed' = (disturbed \/ \E h \in DOMAIN found : Cardinality(results'[h].classes) > 1)
           /\ Continue(p, "events") /\ UNCHANGED probe
  <2>1. /\ probePc' \in [Probers -> ProbeLabels] /\ probePc'[p] = "events" /\ Rest(p)
    BY <1>1, <1>3 DEF ProbeTypes, Continue, Rest
  <2>2. found \in FoundResults
    BY DEF ProbeTypes, ProbeRec
  <2>3. \A h \in DOMAIN found : h \in Hosts /\ found[h] \in [class: Classes, at: Nat]
    BY <2>2 DEF FoundResults
  <2>4. \A h \in DOMAIN found : Stored(h, found[h]) \in StoredResult
    BY <2>3, StoredTypes
  <2>5. results' \in [Hosts -> StoredResult \cup {NoResult}]
    BY <1>3, <2>4 DEF ProbeTypes
  <2>6. disturbed' \in BOOLEAN
    BY <1>3
  <2>7. ProbeTypes'
    BY <1>1, <1>3, <2>1, <2>5, <2>6 DEF ProbeTypes
  <2>8. \A h \in Hosts : results'[h] = IF h \in DOMAIN found THEN Stored(h, found[h]) ELSE results[h]
    BY <1>3
  <2>9. ~disturbed' => ~disturbed /\ \A h \in DOMAIN found : ~(Cardinality(results'[h].classes) > 1)
    BY <1>3
  <2>10. QED BY <1>1, <1>3, <2>1, <2>7, <2>8, <2>9
<1>4. QED BY <1>2, <1>3 DEF SaveResults

LEMMA AppendProbeEventsEffect ==
  ASSUME ProbeTypes, NEW p \in Probers, AppendProbeEvents(p)
  PROVE  /\ ProbeTypes' /\ Rest(p) /\ At(p, "events") /\ UNCHANGED <<clock, results>>
         /\ probePc'[p] = "idle" /\ probe'[p] = NoProbe
         /\ ~disturbed' => ~disturbed
         /\ \/ \A h \in Hosts : lastEvent'[h] =
                 IF h \in Changed(p) THEN probe[p].found[h].class ELSE lastEvent[h]
            \/ UNCHANGED lastEvent /\ (~disturbed' => Changed(p) = {})
<1>1. /\ At(p, "events") /\ UNCHANGED <<clock, ingress, results>>
      /\ probePc' \in [Probers -> ProbeLabels] /\ probe' \in [Probers -> ProbeRec]
      /\ probePc'[p] = "idle" /\ probe'[p] = NoProbe /\ Rest(p)
  BY RoundEndsTypes DEF AppendProbeEvents, WorldStands
<1>2. \A h \in Changed(p) : probe[p].found[h].class \in Classes
  <2>1. probe[p].found \in FoundResults
    BY DEF ProbeTypes, ProbeRec
  <2>2. QED BY <2>1 DEF Changed, FoundResults
<1>3. CASE /\ lastEvent' = [h \in Hosts |->
                IF h \in Changed(p) THEN probe[p].found[h].class ELSE lastEvent[h]]
           /\ UNCHANGED disturbed
  <2>1. lastEvent' \in [Hosts -> Classes \cup {NoResult}]
    BY <1>2, <1>3 DEF ProbeTypes
  <2>2. ProbeTypes'
    BY <1>1, <1>3, <2>1 DEF ProbeTypes
  <2>3. \A h \in Hosts : lastEvent'[h] =
          IF h \in Changed(p) THEN probe[p].found[h].class ELSE lastEvent[h]
    BY <1>3
  <2>4. QED BY <1>1, <1>3, <2>2, <2>3
<1>4. CASE disturbed' = (disturbed \/ Changed(p) # {}) /\ UNCHANGED lastEvent
  <2>1. disturbed' \in BOOLEAN
    BY <1>4
  <2>2. ProbeTypes'
    BY <1>1, <1>4, <2>1 DEF ProbeTypes
  <2>3. QED BY <1>1, <1>4, <2>2
<1>5. QED BY <1>3, <1>4 DEF AppendProbeEvents

LEMMA ProcessDiesEffect ==
  ASSUME ProbeTypes, ProcessDies
  PROVE  /\ ProbeTypes' /\ UNCHANGED <<clock, results, lastEvent>>
         /\ \A p \in Probers : probePc'[p] = "idle" /\ probe'[p] = NoProbe
         /\ ~disturbed' => ~disturbed /\ \A p \in Probers : At(p, "events") => Changed(p) = {}
<1>1. UNCHANGED <<clock, ingress, results, lastEvent>>
  BY DEF ProcessDies, probeTables
<1>2. /\ probePc' \in [Probers -> ProbeLabels] /\ probe' \in [Probers -> ProbeRec]
      /\ \A p \in Probers : probePc'[p] = "idle" /\ probe'[p] = NoProbe
  BY NoProbeType DEF ProcessDies, ProbeLabels
<1>3. disturbed' = (disturbed \/ \E p \in Probers : At(p, "events") /\ Changed(p) # {})
  BY DEF ProcessDies
<1>4. disturbed' \in BOOLEAN
  BY <1>3
<1>5. QED BY <1>1, <1>2, <1>3, <1>4 DEF ProbeTypes

\* The steps that no round takes: the paths, the table of rules, the clock, the
\* audits, and the stuttering ones.
Beside ==
  /\ UNCHANGED <<probePc, probe, results, lastEvent, disturbed>>
  /\ ingress' \in Ingresses
  /\ UNCHANGED clock \/ clock' = clock + 1

LEMMA RoundCases ==
  ASSUME ProbeTypes, [ProbeNext]_<<auditVars, probeVars>>
  PROVE  (\E p \in Probers : ProbeStep(p)) \/ ProcessDies \/ Beside
<1>1. ingress \in Ingresses
  BY DEF ProbeTypes
<1>2. CASE IngressChanges \/ SecondPasses \/ \E h \in Hosts : PathChanges(h)
  BY <1>1, <1>2 DEF IngressChanges, SecondPasses, PathChanges, probeTables, probeRuns, Beside
<1>3. CASE UNCHANGED probeVars
  BY <1>1, <1>3 DEF probeVars, probeTables, probeRuns, Beside
<1>4. QED BY <1>2, <1>3 DEF ProbeNext, RoundsNext

LEMMA ProbeTypesStep ==
  ASSUME AuditTypes, ProbeTypes, [ProbeNext]_<<auditVars, probeVars>>
  PROVE  ProbeTypes'
<1>1. ASSUME NEW p \in Probers, ProbeStep(p) PROVE ProbeTypes'
  BY <1>1, BeginRoundEffect, ContextEndsEffect, ReadIngressEffect, ReadAuditAtEffect, ReadAppsEffect,
     NothingToProbeEffect, ReadPreviousEffect, ProbeAllEffect, SaveResultsEffect, AppendProbeEventsEffect
  DEF ProbeStep
<1>2. CASE Beside
  BY <1>2 DEF Beside, ProbeTypes
<1>3. QED BY <1>1, <1>2, RoundCases, ProcessDiesEffect

\* A step of a round leaves the other rounds alone.
LEMMA OneRoundMoves ==
  ASSUME AuditTypes, ProbeTypes, NEW p \in Probers, ProbeStep(p)
  PROVE  Rest(p)
BY BeginRoundEffect, ContextEndsEffect, ReadIngressEffect, ReadAuditAtEffect, ReadAppsEffect,
   NothingToProbeEffect, ReadPreviousEffect, ProbeAllEffect, SaveResultsEffect,
   AppendProbeEventsEffect
DEF ProbeStep

LEMMA ProbeTypesInit == ProbeInit => ProbeTypes
<1> SUFFICES ASSUME ProbeInit PROVE ProbeTypes
  OBVIOUS
<1>1. probePc \in [Probers -> ProbeLabels] /\ probe \in [Probers -> ProbeRec]
  BY NoProbeType DEF ProbeInit, ProbeLabels
<1>2. /\ results \in [Hosts -> StoredResult \cup {NoResult}]
      /\ lastEvent \in [Hosts -> Classes \cup {NoResult}]
  BY DEF ProbeInit
<1>3. QED BY <1>1, <1>2 DEF ProbeInit, ProbeTypes

-----------------------------------------------------------------------------
(* The token follows the inventory.                                        *)

LEMMA TokenStep ==
  ASSUME AuditTypes, ProbeTypes, SteadyInv, NeverInv, TokenInv, [ProbeNext]_<<auditVars, probeVars>>
  PROVE  TokenInv'
<1> DEFINE Late == {"previous", "probing", "save", "events"}
           Fine(p) == /\ probe[p].public \cap Steady = {}
                      /\ probe[p].informed \/ probePc[p] = "apps" => auditAt
                      /\ probe[p].informed /\ probePc[p] \in Late =>
                           \A h \in Never \cap HostsOf(probe[p].rules) : h \in probe[p].public
<1>1. \A p \in Probers : Fine(p)
  BY DEF TokenInv, At
<1>2. auditAt => auditAt'
  BY RoundsBesideAudits, AuditAtKept
<1>3. SUFFICES ASSUME NEW p \in Probers PROVE Fine(p)'
  BY DEF TokenInv, At
<1>4. CASE probePc'[p] = "idle" /\ probe'[p] = NoProbe
  BY <1>4 DEF NoProbe
<1>5. CASE UNCHANGED <<probePc[p], probe[p]>>
  BY <1>1, <1>2, <1>5
<1>6. ASSUME NEW q \in Probers, ProbeStep(q), probePc'[p] # probePc[p] \/ probe'[p] # probe[p]
      PROVE  Fine(p)'
  <2>1. p = q
    BY <1>6, OneRoundMoves DEF Rest
  <2>2. CASE BeginRound(p) \/ ReadIngress(p)
    <3>1. CASE BeginRound(p)
      BY <1>1, <1>2, <3>1, BeginRoundEffect
    <3>2. CASE ReadIngress(p)
      BY <1>1, <1>2, <1>4, <3>2, ReadIngressEffect
    <3>3. QED BY <2>2, <3>1, <3>2
  <2>3. CASE ContextEnds(p)
    <3>1. probePc' = probePc /\ probe'[p] = [probe[p] EXCEPT !.dead = TRUE]
      BY <2>3, ContextEndsEffect
    <3>2. /\ probe'[p].public = probe[p].public /\ probe'[p].informed = probe[p].informed
          /\ probe'[p].rules = probe[p].rules
      BY <3>1 DEF ProbeTypes, ProbeRec
    <3>3. QED BY <1>1, <1>2, <3>1, <3>2
  <2>4. CASE ReadAuditAt(p)
    BY <1>1, <1>2, <2>4, ReadAuditAtEffect
  <2>5. CASE ReadApps(p)
    <3>1. SUFFICES ASSUME probePc'[p] = "previous", probe'[p].informed = probe[p].informed,
                          probe'[p].public = Unprotected(probe[p].rules),
                          probe'[p].rules = probe[p].rules, probePc[p] = "apps"
                   PROVE  Fine(p)'
      BY <1>4, <2>5, ReadAppsEffect DEF At
    <3>2. auditAt
      BY <1>1, <3>1
    <3>3. Steady \subseteq Protected(apps)
      BY <3>2 DEF SteadyInv, Complete
    <3>4. Protected(apps) \cap Never = {}
      BY DEF NeverInv, Modest
    <3>5. probe'[p].public \cap Steady = {}
      BY <3>1, <3>3 DEF Unprotected
    <3>6. \A h \in Never \cap HostsOf(probe'[p].rules) : h \in probe'[p].public
      BY <3>1, <3>4 DEF Unprotected
    <3>7. QED BY <1>2, <3>2, <3>5, <3>6
  <2>6. CASE ReadPrevious(p)
    BY <1>1, <1>2, <1>4, <2>6, ReadPreviousEffect DEF At
  <2>7. CASE ProbeAll(p)
    BY <1>1, <1>2, <2>7, ProbeAllEffect DEF At
  <2>8. CASE SaveResults(p)
    BY <1>1, <1>2, <1>4, <2>8, SaveResultsEffect DEF At
  <2>9. CASE NothingToProbe(p) \/ AppendProbeEvents(p)
    BY <1>4, <2>9, NothingToProbeEffect, AppendProbeEventsEffect
  <2>10. QED
    BY <1>6, <2>1, <2>2, <2>3, <2>4, <2>5, <2>6, <2>7, <2>8, <2>9 DEF ProbeStep
<1>7. CASE ProcessDies
  BY <1>4, <1>7, ProcessDiesEffect
<1>8. CASE Beside
  BY <1>5, <1>8 DEF Beside
<1>9. QED BY <1>5, <1>6, <1>7, <1>8, RoundCases

LEMMA TokenInit == ProbeInit => TokenInv
BY DEF ProbeInit, TokenInv, NoProbe, At

\* What a round has learnt decides who gets the token.
LEMMA TokenHolds ==
  ASSUME ProbeTypes, TokenInv
  PROVE  TokenFollowsInventory
<1>1. SUFFICES ASSUME NEW p \in Probers, probePc[p] \in {"probing", "save", "events"},
                      NEW h \in DOMAIN TargetsOf(p)
               PROVE  /\ h \in Steady => TargetsOf(p)[h] = HasServiceToken
                      /\ probe[p].informed /\ h \in Never => ~TargetsOf(p)[h]
  BY DEF TokenFollowsInventory
<1>2. /\ h \in Hosts /\ h \in HostsOf(probe[p].rules)
      /\ TargetsOf(p)[h] = (HasServiceToken /\ h \notin probe[p].public)
  BY TargetTypes
<1>3. h \in Steady => h \notin probe[p].public
  BY DEF TokenInv
<1>4. h \in Steady => TargetsOf(p)[h] = HasServiceToken
  BY <1>2, <1>3, TokenAssumption
<1>5. ASSUME probe[p].informed, h \in Never
      PROVE  ~TargetsOf(p)[h]
  <2>1. h \in probe[p].public
    BY <1>1, <1>2, <1>5 DEF TokenInv
  <2>2. QED BY <1>2, <2>1
<1>6. QED BY <1>4, <1>5

-----------------------------------------------------------------------------
(* The events replay the results.                                          *)

LEMMA ClockStep ==
  ASSUME AuditTypes, ProbeTypes, ClockInv, [ProbeNext]_<<auditVars, probeVars>>
  PROVE  ClockInv'
<1>1. clock \in Nat /\ \A h \in Hosts : results[h] # NoResult => results[h].at \in Nat
  BY DEF ProbeTypes, StoredResult
<1>2. \A p \in Probers : probe[p].found \in FoundResults
  BY DEF ProbeTypes, ProbeRec
<1>3. \A p \in Probers : \A h \in DOMAIN probe[p].found :
        h \in Hosts /\ probe[p].found[h] \in [class: Classes, at: Nat]
  BY <1>2 DEF FoundResults
<1>4. \A p \in Probers : \A h \in DOMAIN probe[p].found : probe[p].found[h].at \in Nat
  BY <1>3
<1>5. CASE Beside
  <2>1. clock' \in Nat /\ clock <= clock' /\ UNCHANGED <<results, probe, probePc>>
    BY <1>1, <1>5 DEF Beside
  <2>2. \A h \in Hosts : results'[h] # NoResult => results'[h].at <= clock'
    BY <1>1, <2>1 DEF ClockInv
  <2>3. \A p \in Probers : At(p, "save") =>
          \A h \in DOMAIN probe[p].found : probe[p].found[h].at <= clock'
    BY <1>1, <1>4, <2>1 DEF ClockInv
  <2>4. QED BY <2>1, <2>2, <2>3 DEF ClockInv, At
<1>6. CASE ProcessDies
  BY <1>6, ProcessDiesEffect DEF ClockInv, At
<1>7. ASSUME NEW p \in Probers, ProbeStep(p) PROVE ClockInv'
  <2>1. Rest(p)
    BY <1>7, OneRoundMoves
  <2>2. CASE SaveResults(p)
    <3>1. UNCHANGED clock /\ probePc[p] = "save" /\ probePc'[p] # "save"
      BY <2>2, SaveResultsEffect DEF At
    <3>2. ASSUME NEW h \in Hosts, results'[h] # NoResult PROVE results'[h].at <= clock
      <4>1. CASE UNCHANGED results
        BY <3>2, <4>1 DEF ClockInv
      <4>2. CASE results'[h] = IF h \in DOMAIN probe[p].found THEN Stored(h, probe[p].found[h]) ELSE results[h]
        <5>1. CASE h \in DOMAIN probe[p].found
          <6>1. /\ results'[h] = Stored(h, probe[p].found[h])
                /\ probe[p].found[h] \in [class: Classes, at: Nat]
            BY <1>3, <4>2, <5>1
          <6>2. \/ results'[h].at = probe[p].found[h].at
                \/ results[h] # NoResult /\ results'[h].at = results[h].at
            BY <6>1, StoredTypes
          <6>3. probe[p].found[h].at <= clock
            BY <3>1, <5>1 DEF ClockInv, At
          <6>4. results[h] # NoResult => results[h].at <= clock
            BY DEF ClockInv
          <6>5. QED BY <6>2, <6>3, <6>4
        <5>2. CASE h \notin DOMAIN probe[p].found
          BY <3>2, <4>2, <5>2 DEF ClockInv
        <5>3. QED BY <5>1, <5>2
      <4>3. QED BY <2>2, <4>1, <4>2, SaveResultsEffect
    <3>3. \A q \in Probers : probePc'[q] = "save" => q # p
      BY <3>1
    <3>4. QED BY <2>1, <3>1, <3>2, <3>3 DEF ClockInv, At, Rest
  <2>3. CASE ProbeAll(p)
    <3>1. UNCHANGED <<clock, results>> /\ \A h \in DOMAIN probe'[p].found : probe'[p].found[h].at = clock
      BY <2>3, ProbeAllEffect DEF Quiet
    <3>2. \A h \in DOMAIN probe'[p].found : probe'[p].found[h].at <= clock
      BY <1>1, <3>1
    <3>3. QED BY <2>1, <3>1, <3>2 DEF ClockInv, At, Rest
  <2>4. CASE ContextEnds(p)
    <3>1. probePc' = probePc /\ UNCHANGED <<clock, results>> /\ probe'[p] = [probe[p] EXCEPT !.dead = TRUE]
      BY <2>4, ContextEndsEffect DEF Quiet
    <3>2. probe'[p].found = probe[p].found
      BY <3>1 DEF ProbeTypes, ProbeRec
    <3>3. QED BY <2>1, <3>1, <3>2 DEF ClockInv, At, Rest
  <2>5. CASE BeginRound(p)
    BY <2>1, <2>5, BeginRoundEffect DEF ClockInv, At, Rest
  <2>6. CASE AppendProbeEvents(p)
    BY <2>1, <2>6, AppendProbeEventsEffect DEF ClockInv, At, Rest
  <2>7. CASE ReadIngress(p) \/ ReadAuditAt(p) \/ ReadApps(p) \/ NothingToProbe(p) \/ ReadPrevious(p)
    <3>1. UNCHANGED <<clock, results>> /\ probePc'[p] # "save"
      BY <2>7, ReadIngressEffect, ReadAuditAtEffect, ReadAppsEffect, NothingToProbeEffect,
         ReadPreviousEffect DEF Quiet
    <3>2. QED BY <2>1, <3>1 DEF ClockInv, At, Rest
  <2>8. QED BY <1>7, <2>2, <2>3, <2>4, <2>5, <2>6, <2>7 DEF ProbeStep
<1>8. QED BY <1>5, <1>6, <1>7, RoundCases

\* The parts of ReplayInv.
Alone == \A p, q \in Probers : ~At(p, "idle") /\ ~At(q, "idle") => p = q

Replayed == \A h \in Hosts : Latest(h) = {lastEvent[h]}

\* The events of p's round are what the log lacks.
Missing(p) ==
  \A h \in Hosts :
    Latest(h) = IF h \in DOMAIN probe[p].found THEN {probe[p].found[h].class} ELSE {lastEvent[h]}

\* What the one round that runs knows of the log and of the results.
Knows(p) ==
  /\ ~At(p, "events") => Replayed
  /\ probePc[p] \in {"probing", "save", "events"} => probe[p].previous = lastEvent
  /\ At(p, "save") => \A h \in DOMAIN probe[p].found :
       results[h] # NoResult => results[h].at <= probe[p].found[h].at
  /\ At(p, "events") => Missing(p)

AllIdle == \A p \in Probers : At(p, "idle")

LEMMA ReplayParts ==
  ReplayInv <=> (~disturbed => /\ Alone
                               /\ AllIdle => Replayed
                               /\ \A p \in Probers : ~At(p, "idle") => Knows(p))
<1>1. ASSUME ReplayInv, ~disturbed
      PROVE  Alone /\ (AllIdle => Replayed) /\ \A p \in Probers : ~At(p, "idle") => Knows(p)
  <2>1. /\ Alone /\ ((\A p \in Probers : ~At(p, "events")) => Replayed)
        /\ \A p \in Probers :
             /\ probePc[p] \in {"probing", "save", "events"} => probe[p].previous = lastEvent
             /\ At(p, "save") => \A h \in DOMAIN probe[p].found :
                  results[h] # NoResult => results[h].at <= probe[p].found[h].at
             /\ At(p, "events") => Missing(p)
    BY <1>1 DEF ReplayInv, Alone, Replayed, Missing
  <2>2. AllIdle => Replayed
    BY <2>1 DEF AllIdle, At
  <2>3. ASSUME NEW p \in Probers, ~At(p, "idle") PROVE Knows(p)
    <3>1. ~At(p, "events") => \A q \in Probers : ~At(q, "events")
      BY <2>1, <2>3 DEF Alone, At
    <3>2. QED BY <2>1, <3>1 DEF Knows
  <2>4. QED BY <2>1, <2>2, <2>3
<1>2. ASSUME ~disturbed, Alone, AllIdle => Replayed,
             \A p \in Probers : ~At(p, "idle") => Knows(p)
      PROVE  ReplayInv
  <2>1. (\A p \in Probers : ~At(p, "events")) => Replayed
    BY <1>2 DEF AllIdle, Knows
  <2>2. ASSUME NEW p \in Probers
        PROVE  /\ probePc[p] \in {"probing", "save", "events"} => probe[p].previous = lastEvent
               /\ At(p, "save") => \A h \in DOMAIN probe[p].found :
                    results[h] # NoResult => results[h].at <= probe[p].found[h].at
               /\ At(p, "events") => Missing(p)
    BY <1>2 DEF Knows, At
  <2>3. QED BY <1>2, <2>1, <2>2 DEF ReplayInv, Alone, Replayed, Missing
<1>3. QED BY <1>1, <1>2 DEF ReplayInv

\* Where the results and the log stand still, so does what is replayed.
LEMMA StillReplayed ==
  ASSUME UNCHANGED <<results, lastEvent>>, Replayed
  PROVE  Replayed'
BY DEF Replayed, Latest

\* The save of a round that runs alone: the results of its hosts are its own.
LEMMA SavedIsMissing ==
  ASSUME ProbeTypes, NEW p \in Probers, Knows(p), SaveResults(p), ~disturbed', probePc'[p] = "events"
  PROVE  Missing(p)'
<1>1. /\ At(p, "save") /\ UNCHANGED <<lastEvent, probe>>
      /\ \A h \in Hosts : results'[h] =
           IF h \in DOMAIN probe[p].found THEN Stored(h, probe[p].found[h]) ELSE results[h]
      /\ \A h \in DOMAIN probe[p].found : ~(Cardinality(results'[h].classes) > 1)
  BY SaveResultsEffect
<1>2. Replayed /\ \A h \in DOMAIN probe[p].found :
        results[h] # NoResult => results[h].at <= probe[p].found[h].at
  BY <1>1 DEF Knows, At
<1>3. probe[p].found \in FoundResults
  BY DEF ProbeTypes, ProbeRec
<1>4. SUFFICES ASSUME NEW h \in Hosts
               PROVE  Latest(h)' = IF h \in DOMAIN probe[p].found THEN {probe[p].found[h].class}
                                   ELSE {lastEvent[h]}
  BY <1>1 DEF Missing
<1>5. CASE h \in DOMAIN probe[p].found
  <2> DEFINE new == probe[p].found[h]
  <2>1. new \in [class: Classes, at: Nat]
    BY <1>3, <1>5 DEF FoundResults
  <2>2. results'[h] = Stored(h, new) /\ ~(Cardinality(results'[h].classes) > 1)
    BY <1>1, <1>5
  <2>3. results[h] # NoResult => results[h].at <= new.at
    BY <1>2, <1>5
  <2> HIDE DEF new
  <2>4. results'[h] \in StoredResult /\ results'[h] # NoResult /\ new.class \in results'[h].classes
    BY <2>1, <2>2, <2>3, StoredTypes
  <2>5. results'[h].classes \in SUBSET Classes
    BY <2>4 DEF StoredResult
  <2>6. results'[h].classes = {new.class}
    BY <2>2, <2>4, <2>5, SingleClass
  <2>7. QED BY <1>5, <2>4, <2>6 DEF Latest, new
<1>6. CASE h \notin DOMAIN probe[p].found
  BY <1>1, <1>2, <1>6 DEF Replayed, Latest
<1>7. QED BY <1>5, <1>6

\* The events of a round that runs alone complete the log, and so does a round
\* that has none to write.
LEMMA EventsComplete ==
  ASSUME NEW p \in Probers, At(p, "events"), Knows(p), UNCHANGED results,
         \/ \A h \in Hosts : lastEvent'[h] =
              IF h \in Changed(p) THEN probe[p].found[h].class ELSE lastEvent[h]
         \/ UNCHANGED lastEvent /\ Changed(p) = {}
  PROVE  Replayed'
<1>1. Missing(p) /\ probe[p].previous = lastEvent
  BY DEF Knows, At
<1>2. ASSUME NEW h \in Hosts PROVE Latest(h) = {lastEvent'[h]}
  <2>1. h \in Changed(p) <=> h \in DOMAIN probe[p].found /\ lastEvent[h] # probe[p].found[h].class
    BY <1>1 DEF Changed
  <2>2. lastEvent'[h] = IF h \in Changed(p) THEN probe[p].found[h].class ELSE lastEvent[h]
    OBVIOUS
  <2>3. Latest(h) = IF h \in DOMAIN probe[p].found THEN {probe[p].found[h].class} ELSE {lastEvent[h]}
    BY <1>1 DEF Missing
  <2>4. QED BY <2>1, <2>2, <2>3
<1>3. QED BY <1>2 DEF Replayed, Latest

\* A step of the round that runs alone.
LEMMA ReplayTurn ==
  ASSUME AuditTypes, ProbeTypes, ClockInv, ReplayInv, NEW p \in Probers, ProbeStep(p), ~disturbed'
  PROVE  /\ \A q \in Probers \ {p} : At(q, "idle")
         /\ IF At(p, "idle")' THEN Replayed' ELSE Knows(p)'
<1>1. CASE BeginRound(p)
  <2>1. /\ ~disturbed /\ AllIdle /\ probePc'[p] = "ingress" /\ UNCHANGED <<results, lastEvent>>
    BY <1>1, BeginRoundEffect DEF AllIdle
  <2>2. Replayed'
    BY <2>1, ReplayParts, StillReplayed
  <2>3. QED BY <2>1, <2>2 DEF Knows, At, AllIdle
<1>2. CASE ~BeginRound(p)
  <2>1. ~disturbed
    BY <1>2, ContextEndsEffect, ReadIngressEffect, ReadAuditAtEffect, ReadAppsEffect,
       NothingToProbeEffect, ReadPreviousEffect, ProbeAllEffect, SaveResultsEffect,
       AppendProbeEventsEffect DEF ProbeStep, Quiet
  <2>2. ~At(p, "idle")
    BY <1>2 DEF ProbeStep, ContextEnds, ReadIngress, ReadAuditAt, ReadApps, NothingToProbe,
       ReadPrevious, ProbeAll, SaveResults, AppendProbeEvents, At
  <2>3. Knows(p) /\ \A q \in Probers \ {p} : At(q, "idle")
    BY <2>1, <2>2, ReplayParts DEF Alone
  <2>4. CASE ContextEnds(p)
    <3>1. probePc' = probePc /\ UNCHANGED <<results, lastEvent>>
          /\ probe'[p] = [probe[p] EXCEPT !.dead = TRUE]
      BY <2>4, ContextEndsEffect DEF Quiet
    <3>2. probe'[p].found = probe[p].found /\ probe'[p].previous = probe[p].previous
      BY <3>1 DEF ProbeTypes, ProbeRec
    <3>3. Replayed => Replayed'
      BY <3>1, StillReplayed
    <3>4. Missing(p) => Missing(p)'
      BY <3>1, <3>2 DEF Missing, Latest
    <3>5. ~At(p, "idle")'
      BY <2>2, <3>1 DEF At
    <3>6. QED BY <2>3, <3>1, <3>2, <3>3, <3>4, <3>5 DEF Knows, At
  <2>5. CASE ReadIngress(p) \/ ReadAuditAt(p) \/ ReadApps(p) \/ NothingToProbe(p)
    <3>1. /\ UNCHANGED <<results, lastEvent>> /\ probePc[p] # "events"
          /\ probePc'[p] \notin {"probing", "save", "events"}
      BY <2>5, ReadIngressEffect, ReadAuditAtEffect, ReadAppsEffect, NothingToProbeEffect DEF Quiet, At
    <3>2. Replayed'
      BY <2>3, <3>1, StillReplayed DEF Knows, At
    <3>3. QED BY <2>3, <3>1, <3>2 DEF Knows, At
  <2>6. CASE ReadPrevious(p)
    <3>1. /\ UNCHANGED <<results, lastEvent>> /\ probePc[p] # "events" /\ probe'[p] \in ProbeRec
          /\ \/ probePc'[p] = "idle"
             \/ probePc'[p] = "probing" /\ \A h \in Hosts : probe'[p].previous[h] \in Latest(h)
      <4>1. ProbeTypes'
        BY <2>6, ReadPreviousEffect
      <4>2. probe'[p] \in ProbeRec
        BY <4>1 DEF ProbeTypes
      <4>3. QED BY <2>6, <4>2, ReadPreviousEffect DEF Quiet, At
    <3>2. Replayed /\ Replayed'
      BY <2>3, <3>1, StillReplayed DEF Knows, At
    <3>3. ASSUME probePc'[p] = "probing" PROVE probe'[p].previous = lastEvent
      <4>1. \A h \in Hosts : probe'[p].previous[h] = lastEvent[h]
        BY <3>1, <3>2, <3>3 DEF Replayed
      <4>2. probe'[p].previous \in [Hosts -> Classes \cup {NoResult}]
        BY <3>1 DEF ProbeRec
      <4>3. lastEvent \in [Hosts -> Classes \cup {NoResult}]
        BY DEF ProbeTypes
      <4>4. QED BY <4>1, <4>2, <4>3
    <3>4. QED BY <2>3, <3>1, <3>2, <3>3 DEF Knows, At
  <2>7. CASE ProbeAll(p)
    <3>1. /\ UNCHANGED <<results, lastEvent>> /\ probePc[p] = "probing" /\ probePc'[p] = "save"
          /\ probe'[p].previous = probe[p].previous
          /\ \A h \in DOMAIN probe'[p].found : h \in Hosts /\ probe'[p].found[h].at = clock
      BY <2>7, ProbeAllEffect DEF Quiet, At
    <3>2. Replayed'
      BY <2>3, <3>1, StillReplayed DEF Knows, At
    <3>3. \A h \in DOMAIN probe'[p].found : results[h] # NoResult => results[h].at <= probe'[p].found[h].at
      BY <3>1 DEF ClockInv
    <3>4. QED BY <2>3, <3>1, <3>2, <3>3 DEF Knows, At
  <2>8. CASE SaveResults(p)
    <3>1. CASE probePc'[p] = "events" /\ probe' = probe
      <4>1. Missing(p)'
        BY <2>3, <2>8, <3>1, SavedIsMissing
      <4>2. probe'[p].previous = lastEvent'
        BY <2>3, <2>8, <3>1, SaveResultsEffect DEF Knows, At
      <4>3. QED BY <2>3, <3>1, <4>1, <4>2 DEF Knows, At
    <3>2. CASE UNCHANGED <<results, disturbed>> /\ probePc'[p] = "idle"
      <4>1. UNCHANGED lastEvent /\ At(p, "save")
        BY <2>8, SaveResultsEffect
      <4>2. Replayed'
        BY <2>3, <3>2, <4>1, StillReplayed DEF Knows, At
      <4>3. QED BY <2>3, <3>2, <4>2 DEF At
    <3>3. QED BY <2>8, <3>1, <3>2, SaveResultsEffect
  <2>9. CASE AppendProbeEvents(p)
    <3>1. Replayed'
      BY <2>3, <2>9, AppendProbeEventsEffect, EventsComplete
    <3>2. QED BY <2>3, <2>9, <3>1, AppendProbeEventsEffect DEF At
  <2>10. QED BY <1>2, <2>4, <2>5, <2>6, <2>7, <2>8, <2>9 DEF ProbeStep
<1>3. QED BY <1>1, <1>2

LEMMA ReplayStep ==
  ASSUME AuditTypes, ProbeTypes, ClockInv, ReplayInv, [ProbeNext]_<<auditVars, probeVars>>
  PROVE  ReplayInv'
<1>1. CASE disturbed'
  BY <1>1 DEF ReplayInv
<1>2. ASSUME ~disturbed', NEW p \in Probers, ProbeStep(p)
      PROVE  ReplayInv'
  <2>1. /\ \A q \in Probers \ {p} : probePc[q] = "idle"
        /\ IF probePc'[p] = "idle" THEN Replayed' ELSE Knows(p)'
    BY <1>2, ReplayTurn DEF At
  <2>2. \A q \in Probers \ {p} : probePc'[q] = "idle"
    BY <1>2, <2>1, OneRoundMoves DEF Rest
  <2>3. Alone'
    BY <2>2 DEF Alone, At
  <2>4. CASE probePc'[p] = "idle"
    <3>1. \A q \in Probers : probePc'[q] = "idle"
      BY <2>2, <2>4
    <3>2. QED BY <2>1, <2>3, <2>4, <3>1 DEF ReplayInv, Alone, Replayed, At
  <2>5. CASE probePc'[p] # "idle"
    <3>1. Knows(p)'
      BY <2>1, <2>5
    <3>2. (\A q \in Probers : ~At(q, "events"))' => Replayed'
      BY <3>1 DEF Knows, At
    <3>3. ASSUME NEW q \in Probers
          PROVE  /\ probePc'[q] \in {"probing", "save", "events"} => probe'[q].previous = lastEvent'
                 /\ probePc'[q] = "save" => \A h \in DOMAIN probe'[q].found :
                      results'[h] # NoResult => results'[h].at <= probe'[q].found[h].at
                 /\ probePc'[q] = "events" => Missing(q)'
      <4>1. CASE q = p
        BY <3>1, <4>1 DEF Knows, At
      <4>2. CASE q # p
        BY <2>2, <4>2
      <4>3. QED BY <4>1, <4>2
    <3>4. QED BY <2>3, <3>2, <3>3 DEF ReplayInv, Alone, Replayed, Missing, At
  <2>6. QED BY <2>4, <2>5
<1>3. CASE Beside
  BY <1>3 DEF Beside, ReplayInv, At, Latest
<1>4. ASSUME ~disturbed', ProcessDies
      PROVE  ReplayInv'
  <2>1. /\ ~disturbed /\ UNCHANGED <<results, lastEvent>>
        /\ \A p \in Probers : probePc'[p] = "idle"
        /\ \A p \in Probers : At(p, "events") => Changed(p) = {}
    BY <1>4, ProcessDiesEffect
  <2>2. Replayed'
    <3>1. CASE \E p \in Probers : At(p, "events")
      <4>1. PICK p \in Probers : At(p, "events")
        BY <3>1
      <4>2. Knows(p)
        BY <2>1, <4>1, ReplayParts DEF At
      <4>3. QED BY <2>1, <4>1, <4>2, EventsComplete
    <3>2. CASE \A p \in Probers : ~At(p, "events")
      BY <2>1, <3>2, StillReplayed DEF ReplayInv, Replayed
    <3>3. QED BY <3>1, <3>2
  <2>3. QED BY <2>1, <2>2 DEF ReplayInv, Replayed, At
<1>5. QED BY <1>1, <1>2, <1>3, <1>4, RoundCases

LEMMA RoundsInit == ProbeInit => ClockInv /\ ReplayInv
BY DEF ProbeInit, ClockInv, ReplayInv, At, Latest

-----------------------------------------------------------------------------
(* Where every path answers, only a round that is cut off finds a timeout, *)
(* and it cannot save it.                                                  *)

MeasuredInv ==
  /\ pathChanges \in Nat
  /\ pathChanges = 0 =>
       /\ \A h \in Hosts : path[h] = "answers"
       /\ \A h \in Hosts : results[h] # NoResult => "timeout" \notin results[h].classes
       /\ \A p \in Probers : ~probe[p].dead =>
            \A h \in DOMAIN probe[p].found : probe[p].found[h].class # "timeout"

LEMMA AnsweringIsMeasured ==
  ASSUME NEW h, NEW token, path[h] = "answers"
  PROVE  "timeout" \notin Outcomes(h, token, FALSE)
<1>1. \A r : Classify(r) = "timeout" => r = Failed
  BY DEF Classify
<1>2. \A r \in Answers(h, token) : r # Failed
  <2>1. SUFFICES ASSUME NEW r \in Answers(h, token) PROVE r # Failed
    OBVIOUS
  <2>2. \/ \E s \in {302, 401, 403} : r = [Response(s) EXCEPT !.access = TRUE]
        \/ r = Response(200)
    BY <2>1 DEF Answers
  <2>3. r.status # 0
    BY <2>2 DEF Response
  <2>4. QED BY <2>3 DEF Failed, Response
<1>3. QED BY <1>1, <1>2 DEF Outcomes

\* What a live round finds where every path answers.
LEMMA FoundIsMeasured ==
  ASSUME ProbeTypes, NEW p \in Probers, ProbeAll(p), ~probe[p].dead,
         \A h \in Hosts : path[h] = "answers"
  PROVE  \A h \in DOMAIN probe'[p].found : probe'[p].found[h].class # "timeout"
<1> DEFINE hosts == DOMAIN TargetsOf(p)
           of(h) == Outcomes(h, TargetsOf(p)[h], probe[p].dead)
<1>1. PICK classes \in [hosts -> UNION {of(h) : h \in hosts}] :
        /\ \A h \in hosts : classes[h] \in of(h)
        /\ probe' = [probe EXCEPT ![p].found = [h \in hosts |-> [class |-> classes[h], at |-> clock]]]
  BY DEF ProbeAll
<1>2. \A h \in hosts : "timeout" \notin of(h)
  <2>1. hosts \in SUBSET Hosts
    BY TargetTypes
  <2>2. probe[p].dead = FALSE
    BY DEF ProbeTypes, ProbeRec
  <2>3. QED BY <2>1, <2>2, AnsweringIsMeasured
<1>3. \A h \in hosts : classes[h] # "timeout"
  BY <1>1, <1>2
<1> DEFINE found == [h \in hosts |-> [class |-> classes[h], at |-> clock]]
<1>4. \A h \in DOMAIN found : found[h].class # "timeout"
  BY <1>3
<1> HIDE DEF hosts, of, found
<1>5. probe'[p].found = found
  BY <1>1 DEF ProbeTypes, ProbeRec, found
<1>6. QED BY <1>4, <1>5

\* The other steps of a round find nothing.
LEMMA FoundKept ==
  ASSUME ProbeTypes, NEW p \in Probers, ProbeStep(p), ~ProbeAll(p), ~probe'[p].dead
  PROVE  \/ ~probe[p].dead /\ probe'[p].found = probe[p].found
         \/ DOMAIN probe'[p].found = {}
<1>1. CASE probe'[p] = NoProbe
  BY <1>1 DEF NoProbe
<1>2. CASE probe'[p] # NoProbe
  <2>1. probe \in [Probers -> ProbeRec]
    BY DEF ProbeTypes
  <2>2. ~ContextEnds(p)
    BY <2>1 DEF ContextEnds, ProbeRec
  <2>3. ~RoundEnds(p)
    BY <1>2, <2>1 DEF RoundEnds
  <2>4. CASE BeginRound(p)
    BY <2>1, <2>4 DEF BeginRound, ProbeRec
  <2>5. CASE ReadIngress(p)
    BY <2>1, <2>3, <2>5 DEF ReadIngress, ProbeRec
  <2>6. CASE ReadAuditAt(p)
    BY <2>1, <2>3, <2>6 DEF ReadAuditAt, ProbeRec
  <2>7. CASE ReadApps(p)
    BY <2>1, <2>3, <2>7 DEF ReadApps, ProbeRec
  <2>8. CASE ReadPrevious(p)
    BY <2>1, <2>3, <2>8 DEF ReadPrevious, ProbeRec
  <2>9. CASE NothingToProbe(p) \/ AppendProbeEvents(p)
    BY <2>3, <2>9 DEF NothingToProbe, AppendProbeEvents
  <2>10. CASE SaveResults(p)
    BY <2>3, <2>10 DEF SaveResults
  <2>11. QED BY <2>2, <2>4, <2>5, <2>6, <2>7, <2>8, <2>9, <2>10 DEF ProbeStep
<1>3. QED BY <1>1, <1>2

\* A save of classes without a timeout.
LEMMA SavedIsMeasured ==
  ASSUME ProbeTypes, NEW p \in Probers, SaveResults(p), MeasuredInv, pathChanges = 0
  PROVE  \A h \in Hosts : results'[h] # NoResult => "timeout" \notin results'[h].classes
<1>1. CASE UNCHANGED results
  BY <1>1 DEF MeasuredInv
<1>2. CASE /\ ~probe[p].dead
           /\ results' = [h \in Hosts |->
                IF h \in DOMAIN probe[p].found THEN Stored(h, probe[p].found[h]) ELSE results[h]]
  <2>1. SUFFICES ASSUME NEW h \in Hosts, h \in DOMAIN probe[p].found, results'[h] # NoResult
                 PROVE  "timeout" \notin results'[h].classes
    BY <1>2 DEF MeasuredInv
  <2> DEFINE new == probe[p].found[h]
             old == results[h]
  <2>2. results'[h] = Stored(h, new) /\ new.class # "timeout"
        /\ (old # NoResult => "timeout" \notin old.classes)
    BY <1>2, <2>1 DEF MeasuredInv
  <2>3. old # NoResult => old \in StoredResult
    BY DEF ProbeTypes
  <2>4. \/ Stored(h, new) = [at |-> new.at, classes |-> {new.class}]
        \/ old # NoResult /\ Stored(h, new) = [old EXCEPT !.classes = @ \cup {new.class}]
        \/ old # NoResult /\ Stored(h, new) = old
    BY DEF Stored
  <2> HIDE DEF new, old
  <2>5. QED BY <2>2, <2>3, <2>4 DEF StoredResult
<1>3. QED BY <1>1, <1>2 DEF SaveResults, MaySave

LEMMA MeasuredStep ==
  ASSUME AuditTypes, ProbeTypes, MeasuredInv, [ProbeNext]_<<auditVars, probeVars>>
  PROVE  MeasuredInv'
<1>1. CASE IngressChanges \/ \E h \in Hosts : PathChanges(h)
  <2>1. pathChanges \in Nat /\ pathChanges' = pathChanges + 1
    BY <1>1 DEF MeasuredInv, IngressChanges, PathChanges
  <2>2. QED BY <2>1 DEF MeasuredInv
<1>2. ASSUME NEW p \in Probers, ProbeStep(p) PROVE MeasuredInv'
  <2>1. UNCHANGED <<path, pathChanges>>
    BY <1>2 DEF ProbeStep, BeginRound, ContextEnds, ReadIngress, ReadAuditAt, ReadApps,
       NothingToProbe, ReadPrevious, ProbeAll, SaveResults, AppendProbeEvents, WorldStands
  <2>2. Rest(p)
    BY <1>2, OneRoundMoves
  <2>3. SUFFICES ASSUME pathChanges = 0
                 PROVE  /\ \A h \in Hosts : results'[h] # NoResult => "timeout" \notin results'[h].classes
                        /\ ~probe'[p].dead =>
                             \A h \in DOMAIN probe'[p].found : probe'[p].found[h].class # "timeout"
    BY <2>1, <2>2 DEF MeasuredInv, Rest
  <2>4. \A h \in Hosts : results'[h] # NoResult => "timeout" \notin results'[h].classes
    <3>1. CASE SaveResults(p)
      BY <2>3, <3>1, SavedIsMeasured
    <3>2. CASE ~SaveResults(p)
      <4>1. UNCHANGED results
        BY <1>2, <3>2, BeginRoundEffect, ContextEndsEffect, ReadIngressEffect, ReadAuditAtEffect,
           ReadAppsEffect, NothingToProbeEffect, ReadPreviousEffect, ProbeAllEffect,
           AppendProbeEventsEffect DEF ProbeStep, Quiet
      <4>2. QED BY <2>3, <4>1 DEF MeasuredInv
    <3>3. QED BY <3>1, <3>2
  <2>5. ASSUME ~probe'[p].dead
        PROVE  \A h \in DOMAIN probe'[p].found : probe'[p].found[h].class # "timeout"
    <3>1. CASE ProbeAll(p)
      <4>1. ~probe[p].dead
        BY <2>5, <3>1 DEF ProbeAll, ProbeTypes, ProbeRec
      <4>2. QED BY <2>3, <3>1, <4>1, FoundIsMeasured DEF MeasuredInv
    <3>2. CASE ~ProbeAll(p)
      <4>1. \/ ~probe[p].dead /\ probe'[p].found = probe[p].found
            \/ DOMAIN probe'[p].found = {}
        BY <1>2, <2>5, <3>2, FoundKept
      <4>2. QED BY <2>3, <4>1 DEF MeasuredInv
    <3>3. QED BY <3>1, <3>2
  <2>6. QED BY <2>4, <2>5
<1>3. CASE ProcessDies
  <2>1. UNCHANGED <<path, pathChanges, results>> /\ \A p \in Probers : probe'[p] = NoProbe
    BY <1>3, ProcessDiesEffect DEF ProcessDies
  <2>2. DOMAIN NoProbe.found = {}
    BY DEF NoProbe
  <2>3. QED BY <2>1, <2>2 DEF MeasuredInv
<1>4. CASE UNCHANGED <<path, pathChanges, results, probe>>
  BY <1>4 DEF MeasuredInv
<1>5. SecondPasses \/ UNCHANGED probeVars => UNCHANGED <<path, pathChanges, results, probe>>
  BY DEF SecondPasses, probeVars, probeTables, probeRuns
<1>6. QED BY <1>1, <1>2, <1>3, <1>4, <1>5 DEF ProbeNext, RoundsNext

LEMMA MeasuredInit == ProbeInit => MeasuredInv
BY DEF ProbeInit, MeasuredInv, NoProbe

-----------------------------------------------------------------------------
(* What a card shows of the results.                                       *)

\* The rule whose class a card shows exists, where one ranks at all.
LEMMA WorstExists ==
  ASSUME NEW ranked \in SUBSET Nat, ranked # {}, NEW rank,
         \A i \in ranked : rank[i] \in 0..6
  PROVE  \E i \in ranked : \A j \in ranked : rank[j] < rank[i] \/ (rank[j] = rank[i] /\ i <= j)
<1> DEFINE lacks == {6 - rank[i] : i \in ranked}
<1>1. \A i \in ranked : 6 - rank[i] \in Nat
  OBVIOUS
<1>2. lacks \subseteq Nat /\ lacks # {}
  BY <1>1
<1>3. \E l \in lacks : \A k \in lacks : l <= k
  <2> HIDE DEF lacks
  <2>1. QED BY <1>2, LeastNumber
<1>4. PICK m \in ranked : \A j \in ranked : 6 - rank[m] <= 6 - rank[j]
  BY <1>3
<1>5. \A j \in ranked : rank[j] <= rank[m]
  BY <1>4
<1> DEFINE worst == {i \in ranked : rank[i] = rank[m]}
<1>6. worst \subseteq Nat /\ worst # {}
  OBVIOUS
<1>7. PICK i \in worst : \A j \in worst : i <= j
  <2> HIDE DEF worst
  <2>1. QED BY <1>6, LeastNumber
<1>8. QED BY <1>5, <1>7

\* The class a card shows is that of a rule, and none only where all are well.
LEMMA WorstIsOne ==
  ASSUME NEW I \in SUBSET Nat, NEW classes \in [I -> Classes]
  PROVE  /\ WorstProbeClass(classes) = "" <=> \A i \in I : classes[i] = "ok"
         /\ WorstProbeClass(classes) = "" \/ \E i \in I : WorstProbeClass(classes) = classes[i]
<1> DEFINE rank == [i \in DOMAIN classes |-> ProbeClassRank(classes[i])]
           ranked == {i \in DOMAIN classes : rank[i] > 0}
           Is(i) == \A j \in ranked : rank[j] < rank[i] \/ (rank[j] = rank[i] /\ i <= j)
<1>1. \A c \in Classes : /\ ProbeClassRank(c) \in 0..6 /\ (ProbeClassRank(c) > 0 <=> c # "ok")
                         /\ c # ""
  <2>1. ProbeClassRank("tunnel_down") = 6 /\ ProbeClassRank("origin_error") = 5
        /\ ProbeClassRank("timeout") = 4 /\ ProbeClassRank("access_denied") = 2
    BY DEF ProbeClassRank
  <2>2. ProbeClassRank("access_challenge") = 1 /\ ProbeClassRank("edge_cached") = 1
        /\ ProbeClassRank("ok") = 0
    BY DEF ProbeClassRank
  <2>3. \A c \in Classes : ProbeClassRank(c) \in 0..6 /\ (ProbeClassRank(c) > 0 <=> c # "ok")
    BY <2>1, <2>2 DEF Classes
  <2>4. \A c \in Classes : c # ""
    BY Zenon DEF Classes
  <2>5. QED BY <2>3, <2>4
<1>2. \A i \in I : /\ rank[i] \in 0..6 /\ (i \in ranked <=> classes[i] # "ok") /\ classes[i] # ""
  BY <1>1
<1>3. DOMAIN classes = I
  OBVIOUS
<1>4. WorstProbeClass(classes) = IF ranked = {} THEN "" ELSE classes[CHOOSE i \in ranked : Is(i)]
  BY DEF WorstProbeClass
<1>5. CASE ranked = {}
  <2>1. WorstProbeClass(classes) = ""
    BY <1>4, <1>5
  <2>2. QED BY <1>2, <1>5, <2>1
<1>6. CASE ranked # {}
  <2>1. \E i \in ranked : Is(i)
    <3>1. ranked \in SUBSET Nat /\ \A i \in ranked : rank[i] \in 0..6
      BY <1>2
    <3> HIDE DEF ranked, rank
    <3>2. QED BY <1>6, <3>1, WorstExists
  <2> DEFINE worst == CHOOSE i \in ranked : Is(i)
  <2> HIDE DEF Is
  <2>2. worst \in ranked /\ worst \in I
    BY <1>3, <2>1
  <2>3. WorstProbeClass(classes) = classes[worst]
    BY <1>4, <1>6
  <2> HIDE DEF worst
  <2>4. QED BY <1>2, <2>2, <2>3
<1>7. QED BY <1>5, <1>6

\* A card shows a problem exactly when a host that was checked has one.
LEMMA CardTellsProblems ==
  ASSUME NEW rules \in Seq(Rule), NEW latest \in [Hosts -> Classes \cup {NoResult}]
  PROVE  LET card == ProbeSummary(rules, latest)
         IN /\ card.worst = "" <=> card.ok = card.checked
            /\ card.worst = "" \/ \E h \in Hosts : card.worst = latest[h]
<1> DEFINE probeable == {i \in 1..Len(rules) : rules[i].http}
           seen == {i \in probeable : latest[rules[i].host] # NoResult}
           host == [i \in seen |-> rules[i].host]
           checked == {host[i] : i \in seen}
           well == {h \in checked : latest[h] = "ok"}
           classes == [i \in seen |-> latest[rules[i].host]]
           card == ProbeSummary(rules, latest)
<1>1. \A i \in seen : rules[i].host \in Hosts
  <2>1. \A i \in 1..Len(rules) : rules[i] \in Rule
    OBVIOUS
  <2>2. QED BY <2>1 DEF Rule
<1>2. card.checked = Cardinality(checked) /\ card.ok = Cardinality(well)
      /\ card.worst = WorstProbeClass(classes)
  <2>1. {rules[i].host : i \in seen} = checked
    OBVIOUS
  <2>2. QED BY <2>1 DEF ProbeSummary
<1>3. IsFiniteSet(checked)
  <2>1. IsFiniteSet(1..Len(rules)) /\ seen \in SUBSET (1..Len(rules))
    BY FS_Interval
  <2> HIDE DEF seen, host
  <2>2. IsFiniteSet(seen)
    BY <2>1, FS_Subset
  <2>3. QED BY <2>2, ImageIsFinite
<1>4. well \in SUBSET checked
  OBVIOUS
<1>5. well = checked <=> \A i \in seen : classes[i] = "ok"
  OBVIOUS
<1>6. Cardinality(well) = Cardinality(checked) <=> well = checked
  <2> HIDE DEF well, checked
  <2>1. QED BY <1>3, <1>4, FS_Subset
<1>7. seen \in SUBSET Nat /\ classes \in [seen -> Classes]
  BY <1>1
<1>8. \A i \in seen : classes[i] = latest[rules[i].host]
  OBVIOUS
<1> HIDE DEF card, seen, classes, well, checked
<1>9. /\ WorstProbeClass(classes) = "" <=> \A i \in seen : classes[i] = "ok"
      /\ WorstProbeClass(classes) = "" \/ \E i \in seen : WorstProbeClass(classes) = classes[i]
  BY <1>7, WorstIsOne
<1>10. /\ card.worst = "" <=> card.ok = card.checked
       /\ card.worst = "" \/ \E h \in Hosts : card.worst = latest[h]
  BY <1>1, <1>2, <1>5, <1>6, <1>8, <1>9
<1>11. QED BY <1>10 DEF card

LEMMA TimeoutsHold ==
  ASSUME ProbeTypes, MeasuredInv
  PROVE  TimeoutsAreMeasured
<1>1. SUFFICES ASSUME NEW latest \in [Hosts -> UNION {Latest(h) : h \in Hosts}],
                      \A h \in Hosts : latest[h] \in Latest(h)
               PROVE  LET card == ProbeSummary(ingress, latest)
                      IN /\ pathChanges = 0 => card.worst # "timeout" /\ \A h \in Hosts : latest[h] # "timeout"
                         /\ card.worst = "" <=> card.ok = card.checked
  BY DEF TimeoutsAreMeasured
<1>2. latest \in [Hosts -> Classes \cup {NoResult}]
  BY <1>1, LatestTypes
<1>3. ingress \in Seq(Rule)
  BY IngressAssumption DEF ProbeTypes
<1>4. ASSUME pathChanges = 0 PROVE \A h \in Hosts : latest[h] # "timeout"
  <2>1. NoResult # "timeout"
    BY NoResultAssumption DEF Classes
  <2>2. QED BY <1>1, <1>4, <2>1 DEF MeasuredInv, Latest
<1> DEFINE card == ProbeSummary(ingress, latest)
<1>5. /\ card.worst = "" <=> card.ok = card.checked
      /\ card.worst = "" \/ \E h \in Hosts : card.worst = latest[h]
  BY <1>2, <1>3, CardTellsProblems
<1> HIDE DEF card
<1>6. pathChanges = 0 => card.worst # "timeout" /\ \A h \in Hosts : latest[h] # "timeout"
  BY <1>4, <1>5
<1>7. QED BY <1>5, <1>6 DEF card

-----------------------------------------------------------------------------
(* The theorems.                                                           *)

\* The invariant of the audits and of the rounds beside them.
DaemonInv ==
  /\ AuditTypes /\ SteadyInv /\ NeverInv /\ SettleInv
  /\ ProbeTypes /\ TokenInv /\ ClockInv /\ ReplayInv /\ MeasuredInv

\* Audits and rounds as the daemon runs them keep all of it: an audit that
\* reads, writes, fails or dies beside any others, and a round that does.
THEOREM DaemonInvariant == ProbeSpec => []DaemonInv
<1>1. AuditInit /\ ProbeInit => DaemonInv
  BY AuditTypesInit, SteadyInit, NeverInit, SettleInit, ProbeTypesInit, TokenInit, RoundsInit,
     MeasuredInit DEF DaemonInv
<1>2. DaemonInv /\ [ProbeNext]_<<auditVars, probeVars>> => DaemonInv'
  <2>1. SUFFICES ASSUME DaemonInv, [ProbeNext]_<<auditVars, probeVars>> PROVE DaemonInv'
    OBVIOUS
  <2>2. AuditMove
    BY <2>1, RoundsBesideAudits
  <2>3. AuditTypes' /\ SteadyInv' /\ NeverInv' /\ SettleInv'
    BY <2>1, <2>2, AuditTypesStep, SteadyStep, NeverStep, SettleStep DEF DaemonInv
  <2>4. ProbeTypes' /\ TokenInv' /\ ClockInv' /\ ReplayInv' /\ MeasuredInv'
    BY <2>1, ProbeTypesStep, TokenStep, ClockStep, ReplayStep, MeasuredStep DEF DaemonInv
  <2>5. QED BY <2>3, <2>4 DEF DaemonInv
<1>3. QED BY <1>1, <1>2, PTL DEF ProbeSpec

\* Once there is an audit time, every application the account never lost has a
\* row in the inventory, whatever failed, overlapped or crashed since.
THEOREM SteadyAppsStay == ProbeSpec => []SteadyAppsStayStored
<1>1. DaemonInv => SteadyAppsStayStored
  BY DEF DaemonInv, SteadyInv, Complete, SteadyAppsStayStored
<1>2. QED BY <1>1, DaemonInvariant, PTL

\* After an audit that met no error and no change, and until one that did
\* writes, the tables are what the account holds: applications, tokens and the
\* coverage of the alerts, however many audits write beside it.
THEOREM AuditsSettle == ProbeSpec => []InventorySettles
<1>1. DaemonInv => InventorySettles
  BY DEF DaemonInv, SettleInv
<1>2. QED BY <1>1, DaemonInvariant, PTL

\* No probe of a host that always had an application goes without the token,
\* and none of a host that never had one carries it in a round that began
\* after an audit was recorded.
THEOREM TokenGoesWhereItMust == ProbeSpec => []TokenFollowsInventory
<1>1. DaemonInv => TokenFollowsInventory
  BY TokenHolds DEF DaemonInv
<1>2. QED BY <1>1, DaemonInvariant, PTL

\* The event log tells the class of every host's latest result, for rounds
\* that do not overlap and are not cut off between their two writes.
THEOREM EventsReplayResults == ProbeSpec => []ProbeEventsReplay
<1>1. DaemonInv => ProbeEventsReplay
  BY DEF DaemonInv, ReplayInv, ProbeEventsReplay
<1>2. QED BY <1>1, DaemonInvariant, PTL

\* No timeout is stored or shown that no probe met, and a card shows a problem
\* exactly when a host that was checked has one.
THEOREM ResultsAreMeasured == ProbeSpec => []TimeoutsAreMeasured
<1>1. DaemonInv => TimeoutsAreMeasured
  BY TimeoutsHold DEF DaemonInv
<1>2. QED BY <1>1, DaemonInvariant, PTL

\* Audits and rounds keep the types of both modules.
THEOREM DaemonTypeCorrect == ProbeSpec => [](AuditTypes /\ ProbeTypes)
<1>1. DaemonInv => AuditTypes /\ ProbeTypes
  BY DEF DaemonInv
<1>2. QED BY <1>1, DaemonInvariant, PTL
=============================================================================
