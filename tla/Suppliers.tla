----------------------------- MODULE Suppliers ------------------------------
(***************************************************************************)
(* The suppliers of one tenant: their tax identifiers and the two lists    *)
(* kept inside a supplier, its contacts and its documents.  The entries    *)
(* have no identity of their own: a client names one by its position, the  *)
(* service reads the supplier, looks at that position and then writes to   *)
(* it, and a removal is two writes, one that leaves a hole and one that    *)
(* pulls the holes out.                                                    *)
(*                                                                         *)
(* A call is one HTTP request; what it read is in its record until it      *)
(* writes, and every access to the database is a step.                     *)
(***************************************************************************)
EXTENDS Naturals, SequencesExt, FiniteSets

CONSTANTS
    Firms,          \* suppliers that may be created
    Calls,          \* requests that may be in progress at once
    TaxIds,         \* tax identifiers
    Fields,         \* the fields of a contact that may be edited
    Entries,        \* contacts and documents that may be added
    MaxContacts,    \* contacts a supplier may have
    MaxDocuments    \* bound of the model: documents are not limited

LimitsAssumption ==
    /\ MaxContacts \in Nat \ {0, 1} /\ MaxDocuments \in Nat
    /\ IsFiniteSet(Calls) /\ "null" \notin Entries

VARIABLES
    firm,       \* the documents of the suppliers collection
    call,       \* the requests in progress
    focus,      \* bound of the model: a behaviour is about one list, or tax ids
    wanted,     \* history: the entries each list should have
    astray,     \* history: a write met another entry than the one read
    cut         \* history: a removal died at its hole, none ended since

vars == <<firm, call, focus, wanted, astray, cut>>

Lists == {"contacts", "documents"}

(* An entry and which of its fields have been edited; null in the array    *)
(* is a hole.                                                              *)
Entry == [of: Entries, edited: SUBSET Fields]
Fresh(e) == [of |-> e, edited |-> {}]
Hole == [of |-> "null", edited |-> {}]

NoTax == "none"
Firm == [status: {"none", "live", "archived"}, taxId: TaxIds \cup {NoTax},
         contacts: Seq(Entry \cup {Hole}), documents: Seq(Entry \cup {Hole})]
NoFirm == [status |-> "none", taxId |-> NoTax, contacts |-> <<>>, documents |-> <<>>]

Stages == {"idle", "creating", "retaxing", "archiving", "adding", "replacing",
           "emptying", "editing", "removing", "holed"}
Idle == [stage |-> "idle"]

(* The entries of a list, without the holes. *)
Held(s, l) == {firm[s][l][i] : i \in DOMAIN firm[s][l]} \ {Hole}
Holes(s, l) == {i \in DOMAIN firm[s][l] : firm[s][l][i] = Hole}

At(stage, s, l) ==
    {c \in Calls : call[c].stage = stage /\ call[c].firm = s /\ call[c].list = l}

(* Nothing is stored that no request asked for; every call is at a stage   *)
(* of its operation and holds what that operation reads.                   *)
TypeOK ==
    /\ firm \in [Firms -> Firm]
    /\ \A s \in Firms : firm[s].status = "none" => firm[s] = NoFirm
    /\ \A c \in Calls :
         /\ call[c].stage \in Stages
         /\ call[c].stage # "idle" => call[c].firm \in Firms
         /\ call[c].stage = "editing" => call[c].seen \in Entry
    /\ focus \in Firms \X (Lists \cup {"taxId"})
    /\ \A s \in Firms : wanted[s] \in [Lists -> SUBSET Entry]
    /\ \A s \in Firms : astray[s] \in [Lists -> BOOLEAN]
    /\ \A s \in Firms : cut[s] \in [Lists -> BOOLEAN]

Init ==
    /\ firm = [s \in Firms |-> NoFirm]
    /\ call = [c \in Calls |-> Idle]
    /\ focus \in Firms \X (Lists \cup {"taxId"})
    /\ wanted = [s \in Firms |-> [l \in Lists |-> {}]]
    /\ astray = [s \in Firms |-> [l \in Lists |-> FALSE]]
    /\ cut = [s \in Firms |-> [l \in Lists |-> FALSE]]

history == <<wanted, astray, cut, focus>>

(* findById: the soft-delete plug-in hides archived suppliers from reads,  *)
(* and only from reads.                                                    *)
Visible(s) == firm[s].status = "live"
Begin(c, record) == call[c] = Idle /\ call' = [call EXCEPT ![c] = record]
End(c) == call' = [call EXCEPT ![c] = Idle]
Pending(c, stage) == call[c].stage = stage
Put(s, l, list) == firm' = [firm EXCEPT ![s][l] = list]

(***************************************************************************)
(* The tax identifier: looked for among the suppliers that are visible,    *)
(* then left to the unique index, which knows the archived ones too.       *)
(***************************************************************************)
Free(t, s) == t = NoTax \/ \A o \in Firms \ {s} : firm[o].taxId # t

CheckTax(t) == t # NoTax => \A o \in Firms : Visible(o) => firm[o].taxId # t

BeginCreate(c, s, t) ==
    /\ focus[2] = "taxId" \/ (focus[1] = s /\ t = NoTax)
    /\ firm[s].status = "none"
    /\ CheckTax(t)
    /\ Begin(c, [stage |-> "creating", firm |-> s, list |-> "none", taxId |-> t])
    /\ UNCHANGED <<firm, history>>

Create(c) ==
    LET s == call[c].firm IN
    /\ Pending(c, "creating")
    /\ IF firm[s].status = "none" /\ Free(call[c].taxId, s)
       THEN firm' = [firm EXCEPT ![s] = [NoFirm EXCEPT !.status = "live",
                                                       !.taxId = call[c].taxId]]
       ELSE firm' = firm
    /\ End(c)
    /\ UNCHANGED history

BeginRetax(c, s, t) ==
    /\ focus[2] = "taxId" /\ Visible(s)
    /\ t # firm[s].taxId => CheckTax(t)
    /\ Begin(c, [stage |-> "retaxing", firm |-> s, list |-> "none", taxId |-> t])
    /\ UNCHANGED <<firm, history>>

Retax(c) ==
    LET s == call[c].firm IN
    /\ Pending(c, "retaxing")
    /\ firm' = IF Free(call[c].taxId, s)
               THEN [firm EXCEPT ![s].taxId = call[c].taxId] ELSE firm
    /\ End(c)
    /\ UNCHANGED history

BeginArchive(c, s) ==
    /\ Visible(s)
    /\ Begin(c, [stage |-> "archiving", firm |-> s, list |-> "none"])
    /\ UNCHANGED <<firm, history>>

Archive(c) ==
    /\ Pending(c, "archiving")
    /\ firm' = [firm EXCEPT ![call[c].firm].status = "archived"]
    /\ End(c)
    /\ UNCHANGED history

(***************************************************************************)
(* The lists.                                                              *)
(***************************************************************************)
New(e) ==
    /\ \A s \in Firms, l \in Lists : \A x \in wanted[s][l] \cup Held(s, l) : x.of # e
    /\ \A c \in Calls :
         Pending(c, "adding") \/ Pending(c, "replacing") => call[c].entry # e

(* Contacts are counted on the document that was read; documents are not   *)
(* counted, but the model is.                                              *)
HasRoom(s, l) ==
    Len(firm[s][l]) < IF l = "contacts" THEN MaxContacts ELSE MaxDocuments

BeginAdd(c, s, l, e) ==
    /\ focus = <<s, l>> /\ Visible(s) /\ HasRoom(s, l) /\ New(e)
    /\ Begin(c, [stage |-> "adding", firm |-> s, list |-> l, entry |-> e])
    /\ UNCHANGED <<firm, history>>

Add(c) ==
    LET s == call[c].firm
        l == call[c].list IN
    /\ Pending(c, "adding")
    /\ Put(s, l, Append(firm[s][l], Fresh(call[c].entry)))
    /\ wanted' = [wanted EXCEPT ![s][l] = @ \cup {Fresh(call[c].entry)}]
    /\ End(c)
    /\ UNCHANGED <<astray, cut, focus>>

(* A position in a path has at most MaxContacts values, for contacts.      *)
Positions(s, l) ==
    {i \in DOMAIN firm[s][l] : l = "contacts" => i <= MaxContacts} \ Holes(s, l)

BeginEdit(c, s, i, f) ==
    /\ focus = <<s, "contacts">> /\ Visible(s) /\ i \in Positions(s, "contacts")
    /\ Begin(c, [stage |-> "editing", firm |-> s, list |-> "contacts", at |-> i,
                 seen |-> firm[s].contacts[i], field |-> f])
    /\ UNCHANGED <<firm, history>>

(* $set at a position past the end fills the gap with holes. *)
SetAt(list, i, x) ==
    [j \in 1..(IF i > Len(list) THEN i ELSE Len(list)) |->
       IF j = i THEN x ELSE IF j \in DOMAIN list THEN list[j] ELSE Hole]

(* The position holds the entry that the call read. *)
OnTarget(c) ==
    LET list == firm[call[c].firm][call[c].list] IN
    call[c].at \in DOMAIN list /\ list[call[c].at] = call[c].seen

Stray(c) ==
    astray' = [astray EXCEPT ![call[c].firm][call[c].list] = @ \/ ~OnTarget(c)]

(* The entry that was read, with one field changed, replaces whatever the  *)
(* position holds now.                                                     *)
Edit(c) ==
    LET s == call[c].firm
        merged == [call[c].seen EXCEPT !.edited = @ \cup {call[c].field}] IN
    /\ Pending(c, "editing")
    /\ Put(s, "contacts", SetAt(firm[s].contacts, call[c].at, merged))
    /\ wanted' = [wanted EXCEPT ![s].contacts = (@ \ {call[c].seen}) \cup {merged}]
    /\ Stray(c)
    /\ End(c)
    /\ UNCHANGED <<cut, focus>>

BeginRemove(c, s, l, i) ==
    /\ focus = <<s, l>> /\ Visible(s) /\ i \in Positions(s, l)
    /\ Begin(c, [stage |-> "removing", firm |-> s, list |-> l, at |-> i,
                 seen |-> firm[s][l][i]])
    /\ UNCHANGED <<firm, history>>

(* $unset of a position leaves a hole there, and nothing past the end. *)
Unset(c) ==
    LET s == call[c].firm
        l == call[c].list
        i == call[c].at IN
    /\ Pending(c, "removing")
    /\ Put(s, l, [j \in DOMAIN firm[s][l] |-> IF j = i THEN Hole ELSE firm[s][l][j]])
    /\ wanted' = [wanted EXCEPT ![s][l] = @ \ {call[c].seen}]
    /\ Stray(c)
    /\ call' = [call EXCEPT ![c].stage = "holed"]
    /\ UNCHANGED <<cut, focus>>

(* Mutant: the position that was unset is taken out, whatever it holds now. *)
PullPosition(c) ==
    LET s == call[c].firm
        l == call[c].list
        i == call[c].at IN
    /\ Pending(c, "holed")
    /\ Put(s, l, IF i \in DOMAIN firm[s][l] THEN RemoveAt(firm[s][l], i) ELSE firm[s][l])
    /\ cut' = [cut EXCEPT ![s][l] = FALSE]
    /\ End(c)
    /\ UNCHANGED <<wanted, astray, focus>>

(* The entries in their order, the i-th with i-1 others before it. *)
Packed(list) ==
    LET kept == {i \in DOMAIN list : list[i] # Hole} IN
    [k \in 1..Cardinality(kept) |->
       list[CHOOSE i \in kept : Cardinality({j \in kept : j < i}) = k - 1]]

(* $pull of null takes every hole out, those of other removals too. *)
Pull(c) ==
    LET s == call[c].firm
        l == call[c].list IN
    /\ Pending(c, "holed")
    /\ Put(s, l, Packed(firm[s][l]))
    /\ cut' = [cut EXCEPT ![s][l] = FALSE]
    /\ End(c)
    /\ UNCHANGED <<wanted, astray, focus>>

(* update with a list of contacts, of one entry or empty: the supplier is  *)
(* read, and then the list replaces whatever the stored one is by then.    *)
BeginReplace(c, s, e) ==
    /\ focus = <<s, "contacts">> /\ Visible(s) /\ New(e)
    /\ Begin(c, [stage |-> "replacing", firm |-> s, list |-> "contacts", entry |-> e])
    /\ UNCHANGED <<firm, history>>

BeginEmpty(c, s) ==
    /\ focus = <<s, "contacts">> /\ Visible(s)
    /\ Begin(c, [stage |-> "emptying", firm |-> s, list |-> "none"])
    /\ UNCHANGED <<firm, history>>

Overwrite(c, list) ==
    /\ Put(call[c].firm, "contacts", list)
    /\ wanted' = [wanted EXCEPT ![call[c].firm].contacts = {list[i] : i \in DOMAIN list}]
    /\ End(c)
    /\ UNCHANGED <<astray, cut, focus>>

Replace(c) == Pending(c, "replacing") /\ Overwrite(c, <<Fresh(call[c].entry)>>)
Empty(c) == Pending(c, "emptying") /\ Overwrite(c, <<>>)

(* The process dies: what was read is forgotten, what was written stays. *)
Die(c) ==
    /\ call[c] # Idle
    /\ End(c)
    /\ cut' = IF Pending(c, "holed")
              THEN [cut EXCEPT ![call[c].firm][call[c].list] = TRUE] ELSE cut
    /\ UNCHANGED <<firm, wanted, astray, focus>>

Next ==
    \/ \E c \in Calls, s \in Firms, t \in TaxIds \cup {NoTax} :
         BeginCreate(c, s, t) \/ BeginRetax(c, s, t)
    \/ \E c \in Calls, s \in Firms : BeginArchive(c, s) \/ BeginEmpty(c, s)
    \/ \E c \in Calls, s \in Firms, e \in Entries : BeginReplace(c, s, e)
    \/ \E c \in Calls, s \in Firms, l \in Lists, e \in Entries : BeginAdd(c, s, l, e)
    \/ \E c \in Calls, s \in Firms, i \in 1..MaxContacts, f \in Fields : BeginEdit(c, s, i, f)
    \/ \E c \in Calls, s \in Firms, l \in Lists :
         \E i \in DOMAIN firm[s][l] : BeginRemove(c, s, l, i)
    \/ \E c \in Calls :
         \/ Create(c) \/ Retax(c) \/ Archive(c) \/ Add(c) \/ Edit(c) \/ Unset(c) \/ Pull(c)
         \/ Replace(c) \/ Empty(c) \/ Die(c)

Spec == Init /\ [][Next]_vars

(***************************************************************************)
(* Properties.                                                             *)
(***************************************************************************)
(* A tax identifier belongs to one supplier, archived suppliers included,  *)
(* whichever creates, changes and archivings overlap: the services' check  *)
(* reads only the visible suppliers, and before it writes.                 *)
TaxIdHeldOnce ==
    \A s, o \in Firms : firm[s].taxId = firm[o].taxId /\ firm[s].taxId # NoTax => s = o

(* As long as no write by position has met another entry than the one its  *)
(* call read, the list holds exactly the entries that were added and not   *)
(* removed, each once and with its edits, whatever adds, replacements and  *)
(* removals overlap and wherever a process dies.                           *)
ListsKept ==
    \A s \in Firms, l \in Lists : ~astray[s][l] =>
        /\ Held(s, l) = wanted[s][l]
        /\ Cardinality(Held(s, l)) = Len(firm[s][l]) - Cardinality(Holes(s, l))

(* The contacts are counted before the write, so calls that overlap may    *)
(* exceed the limit, but by no more than the other calls in progress.      *)
LimitNearlyHeld ==
    \A s \in Firms :
        Len(firm[s].contacts) + Cardinality(At("adding", s, "contacts"))
          <= MaxContacts + Cardinality(Calls) - 1

(* A hole, which makes every read of the supplier fail, is there only      *)
(* while a removal is between its two writes, after one died there and     *)
(* until the next removal ends, or after a write that went astray.         *)
HolesEnd ==
    \A s \in Firms, l \in Lists :
        Holes(s, l) # {} => At("holed", s, l) # {} \/ cut[s][l] \/ astray[s][l]
=============================================================================
