----------------------------- MODULE GithubSecrets -----------------------------
(***************************************************************************)
(* loadGitHubActionsSecretNames (github_secrets.go): the names of a        *)
(* repository's secrets and of the organization's, each list read page by  *)
(* page from a server where people may add and delete secrets meanwhile.   *)
(* One failed request, or a reply that is not a list, and nothing of what  *)
(* was read is used.                                                       *)
(***************************************************************************)
EXTENDS Integers, SequencesExt, FiniteSets

CONSTANTS
  Names,      \* names of secrets
  Lists,      \* what an endpoint may list when psh starts
  PerPage,    \* secrets on a page, 100 in the code
  MaxChanges  \* BOUND: secrets added and deleted while psh reads

ASSUME PerPageAssumption == PerPage \in Nat \ {0}
ASSUME MaxChangesAssumption == MaxChanges \in Nat
ASSUME ListsAssumption == \A list \in Lists : list \in Seq(Names) /\ IsInjective(list)

VARIABLES
  server,     \* per endpoint, the secrets listed now
  endpoint,   \* the endpoint being read
  page,       \* the page asked for
  collected,  \* names read from this endpoint
  found,      \* names read from the endpoints before it
  fetch,      \* "idle", "reading", "done", "skipped" or "failed"
  changes,    \* changes made on the server so far
  deleted,    \* history: whether one of them was a deletion
  atStart,    \* history: names listed when psh started
  listed      \* history: names some endpoint has ever listed

reading  == <<endpoint, page, collected, found, fetch>>
serving  == <<server, changes, deleted, atStart, listed>>
githubVars == <<reading, serving>>

Endpoints == 1..2

GithubInit ==
  /\ server = [e \in Endpoints |-> <<>>] /\ changes = 0 /\ deleted = FALSE
  /\ atStart = {} /\ listed = {}
  /\ endpoint = 1 /\ page = 1 /\ collected = {} /\ found = {} /\ fetch = "idle"

\* Without the three variables of a workflow run nothing is asked. What the server
\* lists matters from here on, so it is chosen here.
StartReading(isWorkflow) ==
  /\ fetch = "idle"
  /\ \/ /\ isWorkflow /\ fetch' = "reading"
        /\ server' \in [Endpoints -> Lists]
        /\ atStart' = UNION {Range(server'[e]) : e \in Endpoints} /\ listed' = atStart'
     \/ /\ ~isWorkflow /\ fetch' = "skipped"
        /\ UNCHANGED <<server, atStart, listed>>
  /\ UNCHANGED <<endpoint, page, collected, found, changes, deleted>>

PageOf(list) ==
  SubSeq(list, (page - 1) * PerPage + 1,
         IF page * PerPage < Len(list) THEN page * PerPage ELSE Len(list))

\* An empty page, as many names as the reply says there are, or a short page.
LastPageWhenFull(payload, names, total) ==
  payload = <<>> \/ Cardinality(names) >= total \/ Len(payload) <= PerPage

LastPage(payload, names, total) ==
  payload = <<>> \/ Cardinality(names) >= total \/ Len(payload) < PerPage

PageArrivesAgain ==
  /\ fetch = "reading"
  /\ LET list    == server[endpoint]
         payload == PageOf(list)
         names   == collected \cup Range(payload)
     IN  IF LastPage(payload, names, Len(list))
           THEN /\ found' = found \cup names /\ collected' = {}
                /\ IF endpoint = 2 THEN fetch' = "done" /\ UNCHANGED endpoint
                                   ELSE endpoint' = 2 /\ UNCHANGED fetch
           ELSE collected' = names /\ UNCHANGED <<found, endpoint, fetch>>
  /\ UNCHANGED <<page, serving>>

PageArrives ==
  /\ fetch = "reading"
  /\ LET list    == server[endpoint]
         payload == PageOf(list)
         names   == collected \cup Range(payload)
     IN  IF LastPage(payload, names, Len(list))
           THEN /\ found' = found \cup names /\ collected' = {} /\ page' = 1
                /\ IF endpoint = 2 THEN fetch' = "done" /\ UNCHANGED endpoint
                                   ELSE endpoint' = 2 /\ UNCHANGED fetch
           ELSE /\ collected' = names /\ page' = page + 1
                /\ UNCHANGED <<found, endpoint, fetch>>
  /\ UNCHANGED serving

\* No answer within ten seconds, a status other than 200, a reply that does not
\* decode: the names of both endpoints are given up.
RequestFails ==
  /\ fetch = "reading"
  /\ fetch' = "failed" /\ found' = {} /\ collected' = {}
  /\ UNCHANGED <<endpoint, page, serving>>

Changes == fetch = "reading" /\ changes < MaxChanges /\ changes' = changes + 1

\* A new secret is listed first or last.
SecretAdded ==
  /\ Changes
  /\ \E e \in Endpoints, name \in Names :
       /\ name \notin Range(server[e])
       /\ \E list \in {<<name>> \o server[e], Append(server[e], name)} :
            server' = [server EXCEPT ![e] = list]
       /\ listed' = listed \cup {name}
  /\ UNCHANGED <<deleted, atStart, reading>>

SecretDeleted ==
  /\ Changes
  /\ \E e \in Endpoints : \E i \in DOMAIN server[e] :
       server' = [server EXCEPT ![e] = RemoveAt(@, i)]
  /\ deleted' = TRUE
  /\ UNCHANGED <<listed, atStart, reading>>

Request == PageArrives \/ RequestFails
Server  == SecretAdded \/ SecretDeleted
=============================================================================
