------------------------------- MODULE Allowlists -------------------------------
(***************************************************************************)
(* Allowlists and the decisions they keep out (pkg/database/allowlists.go).*)
(*                                                                         *)
(* A list of the console is replaced by every pull (apic.go) and by force  *)
(* pulls of PAPI, and deleted by its unsubscribe order (papi_cmd.go); a    *)
(* local list is changed by cscli.  Alerts, orders of PAPI and cscli       *)
(* decisions check a value against the items before they insert it, and    *)
(* whoever adds items expires the decisions they match.  Each statement is *)
(* atomic, the operations are not.                                         *)
(*                                                                         *)
(* A value, an IP or a range, is the set of its addresses.  Expired items  *)
(* are like removed ones: every query leaves them out.                     *)
(***************************************************************************)
EXTENDS Integers, FiniteSets

CONSTANTS
    Values,       \* sets of addresses
    Pullers,      \* of "pull", "papi"
    Producers,    \* requests that add a decision
    Faults,       \* of "check", "add", "apply", "fetch"; "unsubscribe": the
                  \* console also gives orders to unsubscribe
    MaxChanges, MaxFaults    \* bounds: orders of the console, faults

\* What the constants must satisfy.
AllowlistsAssumption ==
    /\ Pullers \subseteq {"pull", "papi"}
    /\ Faults \subseteq {"check", "add", "apply", "fetch", "unsubscribe"}

Orphan == 0       \* items without a list
Local  == 1       \* the list of cscli; lists of the console come after it
Writers == Pullers \cup {"cscli"}

VARIABLES
    want, sub,    \* the console: content of its list, and whether we subscribe
    order,        \* its order waiting at PAPI: none, force_pull or unsubscribe
    changes,      \* number of its changes
    live,         \* id of the console's list here, 0 if there is none
    created,      \* the last id given
    rows,         \* the items: [list, val]
    pc,           \* of each writer
    body, list,   \* of a puller: the content it fetched, and the id of the list
    seen,         \* of each writer: the items it read in order to apply them
    dec,          \* of each value: none, active, or raced (see Raced)
    prod,         \* of each producer: [pc, val, raced]
    wrong,        \* observer: decisions expired although no list has a match
    faults

console == <<want, sub, order, changes>>
tables  == <<live, created, rows, dec>>
vars    == <<console, tables, pc, body, list, seen, prod, wrong, faults>>

Idle == [pc |-> "idle", val |-> {}, raced |-> FALSE]

Init ==
    /\ want \in SUBSET Values
    /\ sub = TRUE
    /\ order = "none"
    /\ changes = 0
    /\ live = 0
    /\ created = Local
    /\ rows = {}
    /\ pc = [w \in Writers |-> "idle"]
    /\ body = [p \in Pullers |-> {}]
    /\ list = [p \in Pullers |-> 0]
    /\ seen = [w \in Writers |-> {}]
    /\ dec = [v \in Values |-> "none"]
    /\ prod = [p \in Producers |-> Idle]
    /\ wrong = FALSE
    /\ faults = 0

Fault(f) == f \in Faults /\ faults < MaxFaults /\ faults' = faults + 1

Goto(w, l) == pc' = [pc EXCEPT ![w] = l]

(* A value inside of an item, or with an item inside of it. *)
Matches(v, item) == v \subseteq item \/ item \subseteq v

Of(l) == {r \in rows : r.list = l}

Items(l, vs) == {[list |-> l, val |-> v] : v \in vs}

Listed(v) == \E r \in rows : r.list # Orphan /\ Matches(v, r.val)

(* The producers whose check did not see the items that are added now.       *)
Raced(vs) == [p \in Producers |->
    IF prod[p].pc = "checked" /\ \E i \in vs : Matches(prod[p].val, i)
      THEN [prod[p] EXCEPT !.raced = TRUE] ELSE prod[p]]

-----------------------------------------------------------------------------
(* The console. *)

Change ==
    /\ changes < MaxChanges
    /\ order = "none"
    /\ changes' = changes + 1
    /\ \/ sub /\ want' \in (SUBSET Values) \ {want} /\ order' = "force_pull" /\ UNCHANGED sub
       \/ "unsubscribe" \in Faults /\ sub /\ sub' = FALSE /\ order' = "unsubscribe" /\ UNCHANGED want
       \/ ~sub /\ sub' = TRUE /\ order' = "force_pull" /\ UNCHANGED want
    /\ UNCHANGED <<tables, pc, body, list, seen, prod, wrong, faults>>

-----------------------------------------------------------------------------
(* updateOneAllowlist, for a link of a pull or of a force_pull order. *)

Fetch(p) ==
    /\ pc[p] = "idle"
    /\ IF p = "papi" THEN order = "force_pull" /\ order' = "none" ELSE sub /\ UNCHANGED order
    /\ \/ body' = [body EXCEPT ![p] = want] /\ Goto(p, "fetched") /\ UNCHANGED faults
       \/ Fault("fetch") /\ Goto(p, "apply") /\ UNCHANGED body
    /\ UNCHANGED <<want, sub, changes, tables, list, seen, prod, wrong>>

Find(p) ==
    /\ pc[p] = "fetched"
    /\ list' = [list EXCEPT ![p] = live]
    /\ Goto(p, IF live = 0 THEN "create" ELSE "replace")
    /\ UNCHANGED <<console, tables, body, seen, prod, wrong, faults>>

(* The name is unique: the second of two pulls gives up. *)
CreateAllowList(p) ==
    /\ pc[p] = "create"
    /\ IF live = 0
         THEN /\ created' = created + 1
              /\ live' = created + 1
              /\ list' = [list EXCEPT ![p] = created + 1]
              /\ Goto(p, "replace")
              /\ UNCHANGED body
         ELSE Goto(p, "apply") /\ body' = [body EXCEPT ![p] = {}] /\ UNCHANGED <<created, live, list>>
    /\ UNCHANGED <<console, rows, dec, seen, prod, wrong, faults>>

(* ReplaceAllowlist: delete, then add in a transaction of its own. *)
DeleteItems(p) ==
    /\ pc[p] = "replace"
    /\ rows' = rows \ Of(list[p])
    /\ Goto(p, "add")
    /\ UNCHANGED <<console, live, created, dec, body, list, seen, prod, wrong, faults>>

AfterAdd == "apply"

(* An update of a list that is gone links no item and is no error. *)
AddItems(p) ==
    /\ pc[p] = "add"
    /\ \/ /\ rows' = rows \cup Items(IF list[p] = live THEN live ELSE Orphan, body[p])
          /\ prod' = Raced(body[p])
          /\ UNCHANGED faults
       \/ Fault("add") /\ UNCHANGED <<rows, prod>>
    /\ Goto(p, AfterAdd)
    /\ body' = [body EXCEPT ![p] = {}]
    /\ list' = [list EXCEPT ![p] = 0]
    /\ UNCHANGED <<console, live, created, dec, seen, wrong>>

-----------------------------------------------------------------------------
(* cscli allowlists add, and remove. *)

CliAdd(v) ==
    /\ pc["cscli"] = "idle"
    /\ [list |-> Local, val |-> v] \notin rows
    /\ rows' = rows \cup Items(Local, {v})
    /\ prod' = Raced({v})
    /\ Goto("cscli", AfterAdd)
    /\ UNCHANGED <<console, live, created, dec, body, list, seen, wrong, faults>>

CliRemove(v) ==
    /\ pc["cscli"] = "idle"
    /\ [list |-> Local, val |-> v] \in rows
    /\ rows' = rows \ Items(Local, {v})
    /\ UNCHANGED <<console, live, created, dec, pc, body, list, seen, prod, wrong, faults>>

-----------------------------------------------------------------------------
(* ApplyAllowlistsToExistingDecisions *)

ReadItems(w) ==
    /\ pc[w] = "apply"
    /\ seen' = [seen EXCEPT ![w] = {r.val : r \in rows}]
    /\ Goto(w, IF rows = {} THEN "idle" ELSE "expire")
    /\ UNCHANGED <<console, tables, body, list, prod, wrong, faults>>

Hit(w) == {v \in Values : dec[v] # "none" /\ \E i \in seen[w] : Matches(v, i)}

Expire(w) ==
    /\ pc[w] = "expire"
    /\ \/ /\ dec' = [v \in Values |-> IF v \in Hit(w) THEN "none" ELSE dec[v]]
          /\ wrong' = (wrong \/ \E v \in Hit(w) : \E r \in Of(Orphan) : Matches(v, r.val) /\ ~Listed(v))
          /\ UNCHANGED faults
       \/ Fault("apply") /\ UNCHANGED <<dec, wrong>>
    /\ seen' = [seen EXCEPT ![w] = {}]
    /\ Goto(w, "idle")
    /\ UNCHANGED <<console, live, created, rows, body, list, prod>>

-----------------------------------------------------------------------------
(* DeleteAllowListByID, for an unsubscribe order. *)

Orphaned(l) == {IF r.list = l THEN [r EXCEPT !.list = Orphan] ELSE r : r \in rows}

Unsubscribe ==
    /\ "papi" \in Pullers
    /\ pc["papi"] = "idle"
    /\ order = "unsubscribe"
    /\ order' = "none"
    /\ rows' = IF live = 0 THEN rows ELSE rows \ Of(live)
    /\ Goto("papi", "delete list")
    /\ UNCHANGED <<want, sub, changes, live, created, dec, body, list, seen, prod, wrong, faults>>

DeleteList ==
    /\ "papi" \in Pullers
    /\ pc["papi"] = "delete list"
    /\ live' = 0
    /\ rows' = Orphaned(live)
    /\ Goto("papi", "idle")
    /\ UNCHANGED <<console, created, dec, body, list, seen, prod, wrong, faults>>

-----------------------------------------------------------------------------
(* An alert, an order or a cscli decision: check, then insert. *)

(* IsAllowlistedBy sorts what it found by the name of the list, which an item  *)
(* without one does not have: with another match beside it the request ends.   *)
Found(v) == {r \in rows : Matches(v, r.val)}
SortPanics(v) == Cardinality(Found(v)) > 1 /\ \E r \in Found(v) : r.list = Orphan

Check(p, v) ==
    /\ prod[p].pc = "idle"
    /\ \/ ~SortPanics(v) /\ ~Listed(v) /\ UNCHANGED faults
       \/ Fault("check")
    /\ prod' = [prod EXCEPT ![p] = [pc |-> "checked", val |-> v, raced |-> Listed(v)]]
    /\ UNCHANGED <<console, tables, pc, body, list, seen, wrong>>

Insert(p) ==
    /\ prod[p].pc = "checked"
    /\ dec' = [dec EXCEPT ![prod[p].val] = IF prod[p].raced THEN "raced" ELSE "active"]
    /\ prod' = [prod EXCEPT ![p] = Idle]
    /\ UNCHANGED <<console, live, created, rows, pc, body, list, seen, wrong, faults>>

-----------------------------------------------------------------------------
Pull(p) ==
    Fetch(p) \/ Find(p) \/ CreateAllowList(p) \/ DeleteItems(p) \/ AddItems(p)

Apply(w) == ReadItems(w) \/ Expire(w)

Next ==
    \/ Change \/ Unsubscribe \/ DeleteList
    \/ \E p \in Pullers : Pull(p)
    \/ \E w \in Writers : Apply(w)
    \/ \E v \in Values : CliAdd(v) \/ CliRemove(v)
    \/ \E p \in Producers : Insert(p) \/ \E v \in Values : Check(p, v)

Spec == Init /\ [][Next]_vars

(* Pulls are periodic; what a process began, it ends. *)
FairSpec ==
    /\ Spec
    /\ \A p \in Pullers : WF_vars(Pull(p))
    /\ \A w \in Writers : WF_vars(Apply(w))
    /\ WF_vars(Unsubscribe) /\ WF_vars(DeleteList)

-----------------------------------------------------------------------------
(* Every variable has its type; an id stands for one list. *)
TypeOK ==
    /\ AllowlistsAssumption
    /\ want \subseteq Values
    /\ order \in {"none", "force_pull", "unsubscribe"}
    /\ live \in {0} \cup (Local + 1)..created
    /\ \A r \in rows : r.val \in Values /\ r.list \in {Orphan, Local, live}
    /\ pc \in [Writers -> {"idle", "fetched", "create", "replace", "add", "apply", "expire", "delete list"}]
    /\ dec \in [Values -> {"none", "active", "raced"}]
    /\ \A p \in Producers : prod[p].pc \in {"idle", "checked"}

(* When nobody is about to apply the lists, a decision on a listed value was   *)
(* inserted after a check that came before the item: whoever adds items also   *)
(* expires what is there, in whatever order pulls, cscli and alerts run.       *)
OnlyRaced ==
    (\A w \in Writers : pc[w] \notin {"apply", "expire"}) =>
        \A v \in Values : dec[v] = "active" =>
            \A r \in rows \ Of(Orphan) : r.val \cap v = {}

(* Orders of PAPI alone, one after the other, leave no item without its list.  *)
NoOrphans == Of(Orphan) = {}

(* However pulls and force pulls of different contents mix, and whatever       *)
(* fails, the list of the console has its content again and again once the     *)
(* console stays as it is.                                                     *)
ListCatchesUp ==
    []<>({r.val : r \in Of(live)} = want /\ live # 0)

(* A decision on a value that the console allowlists goes away, also one that  *)
(* slipped in behind the check: every pull applies the lists again.            *)
RacesAreRepaired ==
    \A v \in Values :
        (dec[v] # "none" /\ \E i \in want : i \cap v # {})
            ~> (dec[v] = "none" \/ \A i \in want : i \cap v = {})

-----------------------------------------------------------------------------
(* What the repository says and the code does not keep: TLC finds a        *)
(* behaviour against each of these, which the README describes.            *)

(* allowlists.go:405: "Soft delete (set expiration to now) all decisions that  *)
(* matches any allowlist": no decision is expired for an item of no list.      *)
ExpiredByAList == ~wrong
=============================================================================
