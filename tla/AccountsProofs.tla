--------------------------- MODULE AccountsProofs ---------------------------
(***************************************************************************)
(* Proofs about Accounts, for any users, emails, identities and requests.  *)
(***************************************************************************)
EXTENDS Accounts, WellFoundedInduction, TLAPS

USE AccountsAssumption DEF rows, linkRows, history

-----------------------------------------------------------------------------
(* The smallest of a set of ids.                                             *)

LEMMA FirstOf ==
    ASSUME NEW S \in SUBSET Nat, S # {}
    PROVE  First(S) \in S /\ \A j \in S : First(S) <= j
<1>1. PICK i \in S : \A j \in S : ~(<<j, i>> \in OpToRel(<, Nat))
  BY NatLessThanWellFounded, WFMin
<1>2. ASSUME NEW j \in S, j < i PROVE FALSE
  <2>1. <<j, i>> \in Nat \X Nat /\ <<j, i>>[1] < <<j, i>>[2]
    BY <1>2
  <2>2. <<j, i>> \in OpToRel(<, Nat)
    BY <2>1, Zenon DEF OpToRel
  <2> QED
    BY <1>1, <2>2, Zenon
<1>3. \A j \in S : i <= j
  BY <1>2
<1> QED
  BY <1>3 DEF First

LEMMA NextIdIsNew ==
    ASSUME NEW S \in SUBSET Nat, NEW used \in SUBSET S, used # S
    PROVE  NextId(S, used) \in S \ used
<1>1. S \ used \in SUBSET Nat /\ S \ used # {}
  OBVIOUS
<1> QED
  BY <1>1, FirstOf DEF NextId

(* The link with the smallest id of those found.                             *)
LEMMA ChooseLink ==
    ASSUME NEW found, found # {}, \A l \in found : l.id \in Nat
    PROVE  (CHOOSE k \in found : \A j \in found : k.id <= j.id) \in found
<1> DEFINE ids == {l.id : l \in found}
<1>1. ids \in SUBSET Nat /\ ids # {}
  OBVIOUS
<1>2. First(ids) \in ids /\ \A j \in ids : First(ids) <= j
  <2> HIDE DEF ids
  <2> QED
    BY <1>1, FirstOf
<1>3. PICK k \in found : k.id = First(ids)
  BY <1>2
<1>4. \A j \in found : k.id <= j.id
  BY <1>2, <1>3
<1> QED
  BY <1>4

-----------------------------------------------------------------------------
(* The type invariant, with what a call knows at each of its steps.          *)

RowsOK ==
    /\ users \subseteq usedIds /\ usedIds \subseteq Ids /\ roots \subseteq users
    /\ email \in [Ids -> Emails \union {NoEmail}] /\ active \in [Ids -> BOOLEAN]
    /\ \A u \in Ids : (email[u] # NoEmail <=> u \in users) /\ (active[u] => u \in users)
    /\ \A u, v \in users : email[u] = email[v] => u = v
LinksOK ==
    /\ usedLinks \subseteq LinkIds
    /\ links \subseteq [id : usedLinks, user : users, provider : Providers, pid : Pids]
    /\ \A l, k \in links : l.id = k.id => l = k
RestOK ==
    /\ default \in BOOLEAN /\ online \subseteq Ids
    /\ disabled \in [Calls -> SUBSET Ids]
    /\ overlapped \in [pid : SUBSET (Providers \X Pids), user : SUBSET (Ids \X Providers)]
    /\ demoted \in BOOLEAN

LinkPcs == {"byEmail", "create", "link", "saveLink"}
CallOK(c) ==
    /\ call[c].pc \in {"insert", "login", "create", "byEmail", "setEmail"} =>
          call[c].email \in Emails
    /\ call[c].pc \in LinkPcs =>
          call[c].kind = "oauth" /\ call[c].provider \in Providers /\ call[c].pid \in Pids
    /\ call[c].pc \in {"link", "saveLink", "setEmail", "key", "login"} => call[c].user \in Ids
CallsOK == call \in [Calls -> CallState] /\ \A c \in Calls : CallOK(c)

(* The email an update under way will write is nobody else's, and no other   *)
(* update will write it.                                                     *)
OnlyOf(e, u) == e \in Emails /\ u \in users /\ \A v \in users \ {u} : email[v] # e
ClaimsOK ==
    /\ \A c \in Calls : Updating(c) => OnlyOf(call[c].email, call[c].user)
    /\ \A c, d \in Calls : Updating(c) /\ Updating(d) /\ c # d => call[c].email # call[d].email

TypeInv == RowsOK /\ LinksOK /\ RestOK /\ CallsOK /\ ClaimsOK

Pcs == {"idle", "insert", "login", "sign", "key", "in", "byEmail", "create", "link", "saveLink",
        "setEmail", "forbid", "commit", "delete", "forbidAll", "done"}
Vias == {"none", "email", "link", "new"}

LEMMA TypeInit == AccountsInit => TypeInv
<1> SUFFICES ASSUME AccountsInit PROVE TypeInv
  OBVIOUS
<1>1. 1 \in users /\ usedIds = users /\ users \subseteq Ids
  BY DEF AccountsInit
<1>2. RowsOK
  BY <1>1 DEF AccountsInit, RowsOK
<1>3. LinksOK
  <2>1. CASE links = {}
    BY <2>1 DEF AccountsInit, LinksOK
  <2>2. ASSUME NEW u \in users, NEW p \in Providers, NEW i \in Pids,
               links = {[id |-> 1, user |-> u, provider |-> p, pid |-> i]}
        PROVE  LinksOK
    <3>1. usedLinks = {1}
      BY <2>2 DEF AccountsInit
    <3> QED
      BY <2>2, <3>1 DEF LinksOK
  <2> QED
    BY <2>1, <2>2 DEF AccountsInit
<1>4. RestOK
  <2>1. [pid |-> {}, user |-> {}] \in [pid : SUBSET (Providers \X Pids), user : SUBSET (Ids \X Providers)]
    OBVIOUS
  <2>2. [c \in Calls |-> {}] \in [Calls -> SUBSET Ids]
    OBVIOUS
  <2>3. overlapped = [pid |-> {}, user |-> {}] /\ disabled = [c \in Calls |-> {}] /\ online = {}
    BY DEF AccountsInit
  <2>4. default \in BOOLEAN
    BY SMT DEF AccountsInit
  <2>5. demoted \in BOOLEAN
    BY Zenon DEF AccountsInit
  <2> QED
    BY <2>1, <2>2, <2>3, <2>4, <2>5 DEF RestOK
<1>5. NoCall \in CallState /\ NoCall.pc = "idle"
  BY DEF NoCall, CallState, NewLink
<1>6. CallsOK
  BY <1>5 DEF AccountsInit, CallsOK, CallOK, LinkPcs
<1>7. ClaimsOK
  BY <1>5 DEF AccountsInit, ClaimsOK, Updating
<1> QED
  BY <1>2, <1>3, <1>4, <1>6, <1>7 DEF TypeInv

-----------------------------------------------------------------------------
(* What a step does to the record of its call: a request begins, or goes on  *)
(* with the parameters it had.                                               *)

OthersKept(c) == call' \in [Calls -> CallState] /\ \A d \in Calls \ {c} : call'[d] = call[d]

Began(c) ==
    /\ OthersKept(c) /\ call[c].pc = "idle"
    /\ disabled' = [disabled EXCEPT ![c] = {u \in users : ~active[u]}]
    /\ UNCHANGED <<rows, default, linkRows, online, demoted>>

Continued(c, pc, user, via, link) ==
    /\ OthersKept(c)
    /\ call'[c].pc = pc /\ call'[c].user = user /\ call'[c].via = via /\ call'[c].link = link
    /\ call'[c].kind = call[c].kind /\ call'[c].email = call[c].email
    /\ call'[c].provider = call[c].provider /\ call'[c].pid = call[c].pid
    /\ call'[c].on = call[c].on /\ call'[c].root = call[c].root /\ call'[c].ids = call[c].ids

GoesOn(c, pc) == Continued(c, pc, call[c].user, call[c].via, call[c].link)

Set(r, pc, user, via, link) ==
    [pc |-> pc, kind |-> r.kind, email |-> r.email, user |-> user, via |-> via,
     provider |-> r.provider, pid |-> r.pid, link |-> link, on |-> r.on, root |-> r.root,
     ids |-> r.ids]

LEMMA BeginCall ==
    ASSUME TypeInv, NEW c \in Calls, NEW r \in CallState, Begin(c, r),
           UNCHANGED <<rows, default, linkRows, online, demoted>>
    PROVE  Began(c) /\ IF r.pc = "done" THEN call'[c].pc = "done" ELSE call'[c] = r
<1> DEFINE new == IF r.pc = "done" THEN Ended ELSE r
<1>1. Ended \in CallState /\ Ended.pc = "done"
  BY DEF Ended, NoCall, CallState, NewLink
<1>2. new \in CallState /\ IF r.pc = "done" THEN new.pc = "done" ELSE new = r
  BY <1>1
<1>3. call' = [call EXCEPT ![c] = new]
  BY DEF Begin
<1> HIDE DEF new
<1>4. call'[c] = new /\ OthersKept(c)
  BY <1>2, <1>3 DEF OthersKept, TypeInv, CallsOK
<1>5. Began(c)
  BY <1>4 DEF Begin, Began
<1> QED
  BY <1>2, <1>4, <1>5

(* A call is over.                                                           *)
Ends(c) == OthersKept(c) /\ call'[c].pc = "done"

LEMMA EndCall == ASSUME TypeInv, NEW c \in Calls, End(c) PROVE Ends(c)
<1>1. Ended \in CallState /\ Ended.pc = "done"
  BY DEF Ended, NoCall, CallState, NewLink
<1>2. call' = [call EXCEPT ![c] = Ended]
  BY DEF End
<1> QED
  BY <1>1, <1>2 DEF Ends, OthersKept, TypeInv, CallsOK

LEMMA SetCall ==
    ASSUME TypeInv, NEW c \in Calls, NEW pc \in Pcs, NEW user \in Ids \union {0}, NEW via \in Vias,
           NEW link \in LinkIds \union {NewLink},
           call' = [call EXCEPT ![c] = Set(call[c], pc, user, via, link)]
    PROVE  Continued(c, pc, user, via, link)
<1> DEFINE new == Set(call[c], pc, user, via, link)
<1>1. call[c] \in CallState
  BY DEF TypeInv, CallsOK
<1>2. new \in CallState
  BY <1>1 DEF Set, CallState, Pcs, Vias
<1>3. /\ new.pc = pc /\ new.user = user /\ new.via = via /\ new.link = link
      /\ new.kind = call[c].kind /\ new.email = call[c].email
      /\ new.provider = call[c].provider /\ new.pid = call[c].pid
      /\ new.on = call[c].on /\ new.root = call[c].root /\ new.ids = call[c].ids
  BY DEF Set
<1>4. call' = [call EXCEPT ![c] = new]
  OBVIOUS
<1> HIDE DEF new
<1>5. call'[c] = new /\ OthersKept(c)
  BY <1>2, <1>4 DEF OthersKept, TypeInv, CallsOK
<1> QED
  BY <1>3, <1>5 DEF Continued

LEMMA GoOnCall ==
    ASSUME TypeInv, NEW c \in Calls, NEW pc \in Pcs, GoOn(c, pc)
    PROVE  GoesOn(c, pc)
<1>1. call[c] \in CallState /\ call \in [Calls -> CallState]
  BY DEF TypeInv, CallsOK
<1>2. /\ call[c].user \in Ids \union {0} /\ call[c].via \in Vias
      /\ call[c].link \in LinkIds \union {NewLink}
  BY <1>1 DEF CallState, Vias
<1>3. [call[c] EXCEPT !.pc = pc] = Set(call[c], pc, call[c].user, call[c].via, call[c].link)
  BY <1>1 DEF Set, CallState
<1>4. call' = [call EXCEPT ![c] = [call[c] EXCEPT !.pc = pc]]
  BY <1>1 DEF GoOn
<1> QED
  BY <1>2, <1>3, <1>4, SetCall DEF GoesOn

(* The steps that change more of the record than its pc.                     *)
LEMMA SetTwo ==
    ASSUME TypeInv, NEW c \in Calls, NEW pc \in Pcs
    PROVE  /\ \A user \in Ids \union {0} :
                 call' = [call EXCEPT ![c].pc = pc, ![c].user = user]
                   => Continued(c, pc, user, call[c].via, call[c].link)
           /\ \A via \in Vias :
                 call' = [call EXCEPT ![c].pc = pc, ![c].via = via]
                   => Continued(c, pc, call[c].user, via, call[c].link)
           /\ \A link \in LinkIds \union {NewLink} :
                 call' = [call EXCEPT ![c].pc = pc, ![c].link = link]
                   => Continued(c, pc, call[c].user, call[c].via, link)
           /\ \A user \in Ids \union {0}, via \in Vias :
                 call' = [call EXCEPT ![c].pc = pc, ![c].user = user, ![c].via = via]
                   => Continued(c, pc, user, via, call[c].link)
<1>1. call[c] \in CallState /\ call \in [Calls -> CallState]
  BY DEF TypeInv, CallsOK
<1>2. /\ call[c].user \in Ids \union {0} /\ call[c].via \in Vias
      /\ call[c].link \in LinkIds \union {NewLink}
  BY <1>1 DEF CallState, Vias
<1>2a. [call[c] EXCEPT !.pc = pc] = Set(call[c], pc, call[c].user, call[c].via, call[c].link)
  BY <1>1 DEF Set, CallState
<1>3. ASSUME NEW user \in Ids \union {0},
             call' = [call EXCEPT ![c].pc = pc, ![c].user = user]
      PROVE  Continued(c, pc, user, call[c].via, call[c].link)
  <2> DEFINE new == [[call[c] EXCEPT !.pc = pc] EXCEPT !.user = user]
  <2>a. new = Set(call[c], pc, user, call[c].via, call[c].link)
    <3>1. [Set(call[c], pc, call[c].user, call[c].via, call[c].link) EXCEPT !.user = user]
            = Set(call[c], pc, user, call[c].via, call[c].link)
      BY DEF Set
    <3> QED
      BY <1>2a, <3>1
  <2>b. call' = [call EXCEPT ![c] = new]
    BY <1>1, <1>3
  <2>1. call' = [call EXCEPT ![c] = Set(call[c], pc, user, call[c].via, call[c].link)]
    BY <2>a, <2>b
  <2> QED
    BY <1>2, <2>1, SetCall
<1>4. ASSUME NEW via \in Vias, call' = [call EXCEPT ![c].pc = pc, ![c].via = via]
      PROVE  Continued(c, pc, call[c].user, via, call[c].link)
  <2> DEFINE new == [[call[c] EXCEPT !.pc = pc] EXCEPT !.via = via]
  <2>a. new = Set(call[c], pc, call[c].user, via, call[c].link)
    <3>1. [Set(call[c], pc, call[c].user, call[c].via, call[c].link) EXCEPT !.via = via]
            = Set(call[c], pc, call[c].user, via, call[c].link)
      BY DEF Set
    <3> QED
      BY <1>2a, <3>1
  <2>b. call' = [call EXCEPT ![c] = new]
    BY <1>1, <1>4
  <2>1. call' = [call EXCEPT ![c] = Set(call[c], pc, call[c].user, via, call[c].link)]
    BY <2>a, <2>b
  <2> QED
    BY <1>2, <2>1, SetCall
<1>5. ASSUME NEW link \in LinkIds \union {NewLink},
             call' = [call EXCEPT ![c].pc = pc, ![c].link = link]
      PROVE  Continued(c, pc, call[c].user, call[c].via, link)
  <2> DEFINE new == [[call[c] EXCEPT !.pc = pc] EXCEPT !.link = link]
  <2>a. new = Set(call[c], pc, call[c].user, call[c].via, link)
    <3>1. [Set(call[c], pc, call[c].user, call[c].via, call[c].link) EXCEPT !.link = link]
            = Set(call[c], pc, call[c].user, call[c].via, link)
      BY DEF Set
    <3> QED
      BY <1>2a, <3>1
  <2>b. call' = [call EXCEPT ![c] = new]
    BY <1>1, <1>5
  <2>1. call' = [call EXCEPT ![c] = Set(call[c], pc, call[c].user, call[c].via, link)]
    BY <2>a, <2>b
  <2> QED
    BY <1>2, <2>1, SetCall
<1>6. ASSUME NEW user \in Ids \union {0}, NEW via \in Vias,
             call' = [call EXCEPT ![c].pc = pc, ![c].user = user, ![c].via = via]
      PROVE  Continued(c, pc, user, via, call[c].link)
  <2> DEFINE new == [[[call[c] EXCEPT !.pc = pc] EXCEPT !.user = user] EXCEPT !.via = via]
  <2>a. new = Set(call[c], pc, user, via, call[c].link)
    <3>1. [Set(call[c], pc, call[c].user, call[c].via, call[c].link) EXCEPT !.user = user]
            = Set(call[c], pc, user, call[c].via, call[c].link)
      BY DEF Set
    <3>2. [Set(call[c], pc, user, call[c].via, call[c].link) EXCEPT !.via = via]
            = Set(call[c], pc, user, via, call[c].link)
      BY DEF Set
    <3> QED
      BY <1>2a, <3>1, <3>2
  <2>b. call' = [call EXCEPT ![c] = new]
    BY <1>1, <1>6
  <2>1. call' = [call EXCEPT ![c] = Set(call[c], pc, user, via, call[c].link)]
    BY <2>a, <2>b
  <2> QED
    BY <1>2, <2>1, SetCall
<1> QED
  BY <1>3, <1>4, <1>5, <1>6

-----------------------------------------------------------------------------
(* What the steps do, by their shape.  A request begins:                     *)

Overlaps ==
    /\ overlapped' \in [pid : SUBSET (Providers \X Pids), user : SUBSET (Ids \X Providers)]
    /\ overlapped'.user = overlapped.user /\ overlapped.pid \subseteq overlapped'.pid

BeginsOther(r) ==
    \/ r.pc = "done"
    \/ r.pc = "insert" /\ r.email \in Emails
    \/ r.pc = "setEmail" /\ r.email \in Emails /\ r.user \in Ids
    \/ r.pc \in {"forbid", "commit"} /\ OnlyOf(r.email, r.user) /\ ~Pending(r.email)
    \/ r.pc = "delete" /\ ~RefusesRoot(r.ids)
    \/ r.pc = "sign" /\ r.user \in users /\ active[r.user]
BeginsLinked(r) ==
    /\ r.pc = "link" /\ r.via = "link" /\ r.link = NewLink /\ r.kind = "oauth"
    /\ r.provider \in Providers /\ r.pid \in Pids
    /\ \E l \in LinksOf(r.provider, r.pid) : r.user = l.user
BeginsUnlinked(c, r) ==
    /\ r.pc = "byEmail" /\ r.via = "none" /\ r.link = NewLink /\ r.kind = "oauth"
    /\ r.email \in Emails /\ r.provider \in Providers /\ r.pid \in Pids
    /\ LinksOf(r.provider, r.pid) = {}
    /\ SavePending(c, r.provider, r.pid) => <<r.provider, r.pid>> \in overlapped'.pid

Begins(c) ==
    /\ Began(c) /\ Overlaps
    /\ BeginsOther(call'[c]) \/ BeginsLinked(call'[c]) \/ BeginsUnlinked(c, call'[c])

(* goes on without a write to the database,                                  *)

Moves(c) ==
    /\ UNCHANGED <<rows, default, linkRows, history>> /\ online' \subseteq Ids
    /\ \/ Ends(c)
       \/ call[c].pc = "sign" /\ call[c].user \in users /\ GoesOn(c, "key")
       \/ call[c].pc = "key" /\ GoesOn(c, "in")
       \/ call[c].pc = "byEmail" /\ GoesOn(c, "create")
       \/ call[c].pc = "forbid" /\ GoesOn(c, "commit")
       \/ /\ call[c].pc = "login" /\ call[c].user \in users /\ active[call[c].user]
          /\ Continued(c, "sign", call[c].user, "email", call[c].link)
       \/ /\ call[c].pc = "byEmail"
          /\ \E u \in users : active[u] /\ Continued(c, "link", u, "email", call[c].link)

Finds(c) ==
    /\ call[c].pc = "link"
    /\ \E l \in Found(LinksOfUser(call[c].user, call[c].provider)) :
          l \in LinkIds \union {NewLink} /\ Continued(c, "saveLink", call[c].user, call[c].via, l)
    /\ overlapped' \in [pid : SUBSET (Providers \X Pids), user : SUBSET (Ids \X Providers)]
    /\ overlapped'.pid = overlapped.pid /\ overlapped.user \subseteq overlapped'.user
    /\ LinksOfUser(call[c].user, call[c].provider) = {} /\ SameLinkPending(c)
          => <<call[c].user, call[c].provider>> \in overlapped'.user
    /\ UNCHANGED <<rows, default, linkRows, online, disabled, demoted>>

(* inserts a user, or stores a link.                                         *)

Inserts(c) ==
    /\ UNCHANGED <<default, linkRows, online, history>>
    /\ call[c].email \in Emails /\ ~Taken(call[c].email) /\ ~Pending(call[c].email)
    /\ \E u \in Ids \ usedIds, on \in BOOLEAN :
          /\ users' = users \union {u} /\ usedIds' = usedIds \union {u}
          /\ email' = [email EXCEPT ![u] = call[c].email]
          /\ active' = [active EXCEPT ![u] = on]
          /\ roots \subseteq roots' /\ roots' \subseteq roots \union {u}
          /\ \/ /\ call[c].pc = "insert"
                /\ \E pc \in {"login", "done"} : Continued(c, pc, u, call[c].via, call[c].link)
             \/ call[c].pc = "create" /\ Continued(c, "link", u, "new", call[c].link)

Stores(c) ==
    LET r == call[c]
    IN  /\ r.pc = "saveLink" /\ r.user \in users /\ GoesOn(c, "sign")
        /\ UNCHANGED <<rows, default, online, history>>
        /\ \E id \in LinkIds :
              /\ IF r.link = NewLink THEN id \notin usedLinks ELSE id = r.link
              /\ links' = {l \in links : l.id # id} \union
                           {[id |-> id, user |-> r.user, provider |-> r.provider, pid |-> r.pid]}
              /\ usedLinks' = usedLinks \union {id}

LEMMA TypesApart ==
    ASSUME TypeInv
    PROVE  /\ users \subseteq Ids /\ usedIds \subseteq Ids /\ Ids \subseteq Nat /\ 0 \notin Ids
           /\ LinkIds \subseteq Nat /\ 0 \notin LinkIds
           /\ \A c \in Calls : call[c] \in CallState /\ CallOK(c)
BY DEF TypeInv, RowsOK, CallsOK

LEMMA FoundActive ==
    ASSUME TypeInv, NEW e, FoundByEmail(e) # {}
    PROVE  First(FoundByEmail(e)) \in users /\ active[First(FoundByEmail(e))]
<1>1. FoundByEmail(e) \in SUBSET Nat
  BY TypesApart DEF FoundByEmail
<1>2. First(FoundByEmail(e)) \in FoundByEmail(e)
  BY <1>1, FirstOf
<1> QED
  BY <1>2 DEF FoundByEmail

(* The record of a new request is that of NoCall, but for what it says.      *)
LEMMA NewCall ==
    /\ NoCall \in CallState /\ NoCall.pc = "idle" /\ NoCall.via = "none" /\ NoCall.link = NewLink
    /\ NoCall.user = 0
    /\ NoCall = [pc |-> "idle", kind |-> "none", email |-> NoEmail, user |-> 0, via |-> "none",
                 provider |-> "none", pid |-> "none", link |-> 0, on |-> TRUE, root |-> FALSE,
                 ids |-> {}]
BY DEF NoCall, CallState, NewLink

LEMMA CreateBegins ==
    ASSUME TypeInv, NEW c \in Calls, NEW e \in Emails, NEW kind \in {"register", "create"},
           NEW on \in BOOLEAN, NEW root \in BOOLEAN, CreateFind(c, kind, e, on, root)
    PROVE  Begins(c)
<1> DEFINE pc == IF Taken(e) THEN "done" ELSE "insert"
           r == [NoCall EXCEPT !.pc = pc, !.kind = kind, !.email = e, !.on = on, !.root = root]
<1>1. pc \in {"done", "insert"}
  OBVIOUS
<1> HIDE DEF pc
<1>2. r \in CallState /\ r.pc = pc /\ r.email = e
  BY <1>1 DEF NoCall, CallState, NewLink
<1>3. Begin(c, r) /\ UNCHANGED <<rows, default, linkRows, online, demoted>> /\ UNCHANGED overlapped
  BY DEF CreateFind, pc
<1> HIDE DEF r
<1>4. Began(c) /\ IF r.pc = "done" THEN call'[c].pc = "done" ELSE call'[c] = r
  BY <1>2, <1>3, BeginCall
<1>5. Overlaps
  BY <1>3 DEF Overlaps, TypeInv, RestOK
<1> QED
  BY <1>1, <1>2, <1>4, <1>5 DEF Begins, BeginsOther

LEMMA LoginBegins ==
    ASSUME TypeInv, NEW c \in Calls, NEW e \in Emails, Login(c, e)
    PROVE  Begins(c)
<1> DEFINE found == FoundByEmail(e)
           pc == IF found = {} THEN "done" ELSE "sign"
           user == IF found = {} THEN 0 ELSE First(found)
           r == [NoCall EXCEPT !.pc = pc, !.kind = "login", !.email = e, !.via = "email",
                               !.user = user]
<1>1. /\ pc \in {"done", "sign"} /\ user \in Ids \union {0}
      /\ pc = "sign" => user \in users /\ active[user]
  BY FoundActive, TypesApart
<1>3. Begin(c, r) /\ UNCHANGED <<rows, default, linkRows, online, demoted>> /\ UNCHANGED overlapped
  BY DEF Login
<1> HIDE DEF pc, user
<1>2. r \in CallState /\ r.pc = pc /\ r.user = user
  BY <1>1 DEF NoCall, CallState, NewLink
<1> HIDE DEF r
<1>4. Began(c) /\ IF r.pc = "done" THEN call'[c].pc = "done" ELSE call'[c] = r
  BY <1>2, <1>3, BeginCall
<1>5. Overlaps
  BY <1>3 DEF Overlaps, TypeInv, RestOK
<1> QED
  BY <1>1, <1>2, <1>4, <1>5 DEF Begins, BeginsOther

LEMMA AccountBegins ==
    ASSUME TypeInv, NEW c \in Calls, NEW u \in usedIds, NEW e \in Emails, AccountFind(c, u, e)
    PROVE  Begins(c)
<1> DEFINE pc == IF u \in users THEN "setEmail" ELSE "done"
           r == [NoCall EXCEPT !.pc = pc, !.kind = "account", !.email = e, !.user = u]
<1>1. pc \in {"done", "setEmail"} /\ u \in Ids
  BY TypesApart
<1>3. Begin(c, r) /\ UNCHANGED <<rows, default, linkRows, online, demoted>> /\ UNCHANGED overlapped
  BY DEF AccountFind
<1> HIDE DEF pc
<1>2. r \in CallState /\ r.pc = pc /\ r.email = e /\ r.user = u
  BY <1>1 DEF NoCall, CallState, NewLink
<1> HIDE DEF r
<1>4. Began(c) /\ IF r.pc = "done" THEN call'[c].pc = "done" ELSE call'[c] = r
  BY <1>2, <1>3, BeginCall
<1>5. Overlaps
  BY <1>3 DEF Overlaps, TypeInv, RestOK
<1> QED
  BY <1>1, <1>2, <1>4, <1>5 DEF Begins, BeginsOther

LEMMA UpdateBegins ==
    ASSUME TypeInv, NEW c \in Calls, NEW u \in users, NEW e \in Emails, NEW on \in BOOLEAN,
           NEW root \in BOOLEAN, UpdateBegin(c, u, e, on, root)
    PROVE  Begins(c)
<1> DEFINE pc == IF email[u] # e /\ UniqueRefuses(e) THEN "done" ELSE IF on THEN "commit" ELSE "forbid"
           r == [NoCall EXCEPT !.pc = pc, !.kind = "update", !.user = u, !.email = e, !.on = on,
                               !.root = root]
<1>1. pc \in {"done", "commit", "forbid"} /\ u \in Ids /\ (pc # "done" => OnlyOf(e, u) /\ ~Pending(e))
  <2>1. u \in Ids /\ ~Pending(e)
    BY TypesApart DEF UpdateBegin
  <2>2. email[u] = e \/ ~UniqueRefuses(e) => OnlyOf(e, u)
    BY DEF OnlyOf, UniqueRefuses, Taken, TypeInv, RowsOK
  <2> QED
    BY <2>1, <2>2
<1>3. Begin(c, r) /\ UNCHANGED <<rows, default, linkRows, online, demoted>> /\ UNCHANGED overlapped
  BY DEF UpdateBegin
<1> HIDE DEF pc
<1>2. r \in CallState /\ r.pc = pc /\ r.user = u /\ r.email = e
  BY <1>1 DEF NoCall, CallState, NewLink
<1> HIDE DEF r
<1>4. Began(c) /\ IF r.pc = "done" THEN call'[c].pc = "done" ELSE call'[c] = r
  BY <1>2, <1>3, BeginCall
<1>5. Overlaps
  BY <1>3 DEF Overlaps, TypeInv, RestOK
<1> QED
  BY <1>1, <1>2, <1>4, <1>5 DEF Begins, BeginsOther

LEMMA DeleteBegins ==
    ASSUME TypeInv, NEW c \in Calls, NEW ids \in SUBSET usedIds, DeleteCheck(c, ids)
    PROVE  Begins(c)
<1> DEFINE pc == IF RefusesRoot(ids) THEN "done" ELSE "delete"
           r == [NoCall EXCEPT !.pc = pc, !.kind = "delete", !.ids = ids]
<1>1. pc \in {"done", "delete"} /\ (pc = "delete" => ~RefusesRoot(ids)) /\ ids \subseteq Ids
  BY TypesApart
<1>3. Begin(c, r) /\ UNCHANGED <<rows, default, linkRows, online, demoted>> /\ UNCHANGED overlapped
  BY DEF DeleteCheck
<1> HIDE DEF pc
<1>2. r \in CallState /\ r.pc = pc /\ r.ids = ids
  BY <1>1 DEF NoCall, CallState, NewLink
<1> HIDE DEF r
<1>4. Began(c) /\ IF r.pc = "done" THEN call'[c].pc = "done" ELSE call'[c] = r
  BY <1>2, <1>3, BeginCall
<1>5. Overlaps
  BY <1>3 DEF Overlaps, TypeInv, RestOK
<1> QED
  BY <1>1, <1>2, <1>4, <1>5 DEF Begins, BeginsOther

LEMMA OAuthBegins ==
    ASSUME TypeInv, NEW c \in Calls, NEW p \in Providers, NEW pid \in Pids,
           NEW e \in Emails \union {NoEmail}, OAuthFind(c, p, pid, e)
    PROVE  Begins(c)
<1> DEFINE found == LinksOf(p, pid)
           l == CHOOSE k \in found : \A j \in found : k.id <= j.id
           base == [NoCall EXCEPT !.kind = "oauth", !.email = e, !.provider = p, !.pid = pid]
           linked == [base EXCEPT !.pc = "link", !.user = l.user, !.via = "link"]
           pc == IF e = NoEmail THEN "done" ELSE "byEmail"
           unlinked == [base EXCEPT !.pc = pc]
<1>1. /\ Begin(c, IF found # {} THEN linked ELSE unlinked)
      /\ UNCHANGED <<rows, default, linkRows, online, demoted>>
      /\ overlapped' = IF found = {} /\ SavePending(c, p, pid)
                       THEN [overlapped EXCEPT !.pid = @ \union {<<p, pid>>}] ELSE overlapped
  BY DEF OAuthFind
<1>2. /\ base \in CallState /\ base.via = "none" /\ base.link = NewLink
      /\ base.kind = "oauth" /\ base.email = e /\ base.provider = p /\ base.pid = pid
  BY DEF NoCall, CallState, NewLink
<1>3. pc \in {"done", "byEmail"} /\ (pc = "byEmail" => e \in Emails)
  OBVIOUS
<1>4. Overlaps /\ (found = {} /\ SavePending(c, p, pid) => <<p, pid>> \in overlapped'.pid)
  <2>1. overlapped \in [pid : SUBSET (Providers \X Pids), user : SUBSET (Ids \X Providers)]
    BY DEF TypeInv, RestOK
  <2>2. <<p, pid>> \in Providers \X Pids
    OBVIOUS
  <2> HIDE DEF found
  <2> QED
    BY <1>1, <2>1, <2>2 DEF Overlaps
<1> HIDE DEF base, pc
<1>5. CASE found # {}
  <2>1. l \in found
    <3>1. \A k \in found : k.id \in Nat
      BY TypesApart DEF LinksOf, TypeInv, LinksOK
    <3> QED
      BY <1>5, <3>1, ChooseLink
  <2>2. l.user \in Ids
    BY <2>1, TypesApart DEF LinksOf, TypeInv, LinksOK
  <2> HIDE DEF l
  <2>3. /\ linked \in CallState /\ linked.pc = "link" /\ linked.via = "link"
        /\ linked.link = NewLink /\ linked.kind = "oauth" /\ linked.user = l.user
        /\ linked.provider = p /\ linked.pid = pid
    BY <1>2, <2>2 DEF CallState
  <2>4. Begin(c, linked)
    BY <1>1, <1>5
  <2> HIDE DEF linked, found
  <2>5. Began(c) /\ call'[c] = linked
    BY <1>1, <2>3, <2>4, BeginCall
  <2>6. BeginsLinked(call'[c])
    BY <2>1, <2>3, <2>5 DEF BeginsLinked, found
  <2> QED
    BY <1>4, <2>5, <2>6 DEF Begins
<1>6. CASE found = {}
  <2>1. /\ unlinked \in CallState /\ unlinked.pc = pc /\ unlinked.via = "none"
        /\ unlinked.link = NewLink /\ unlinked.kind = "oauth" /\ unlinked.email = e
        /\ unlinked.provider = p /\ unlinked.pid = pid
    BY <1>2, <1>3 DEF CallState
  <2>2. Begin(c, unlinked)
    BY <1>1, <1>6
  <2> HIDE DEF unlinked
  <2>3. Began(c) /\ IF unlinked.pc = "done" THEN call'[c].pc = "done" ELSE call'[c] = unlinked
    BY <1>1, <2>1, <2>2, BeginCall
  <2>4. pc = "byEmail" => BeginsUnlinked(c, call'[c])
    BY <1>3, <1>4, <1>6, <2>1, <2>3 DEF BeginsUnlinked
  <2>5. pc = "done" => BeginsOther(call'[c])
    BY <2>1, <2>3 DEF BeginsOther
  <2> QED
    BY <1>3, <1>4, <2>3, <2>4, <2>5 DEF Begins
<1> QED
  BY <1>5, <1>6

LEMMA StartBegins ==
    ASSUME TypeInv, NEW c \in Calls, Start(c)
    PROVE  Begins(c)
<1>1. \A p \in Providers : ProfileEmails(p) \subseteq Emails \union {NoEmail}
  BY DEF ProfileEmails, MobileEmails, AppleEmails, GoogleEmails
<1>2. ASSUME NEW p \in Providers, NEW pid \in Pids, NEW e \in ProfileEmails(p),
             OAuthFind(c, p, pid, e)
      PROVE  Begins(c)
  <2>1. e \in Emails \union {NoEmail}
    BY <1>1
  <2> QED
    BY <1>2, <2>1, OAuthBegins
<1> QED
  BY <1>2, CreateBegins, LoginBegins, AccountBegins, UpdateBegins, DeleteBegins DEF Start

(* The steps of a request that has begun.                                    *)
LEMMA StepShape ==
    ASSUME TypeInv, NEW c \in Calls, Step(c)
    PROVE  \/ Moves(c) \/ Finds(c) \/ Inserts(c) \/ Stores(c)
           \/ AccountSave(c) \/ UpdateCommit(c) \/ DeleteRows(c)
<1> USE DEF Pcs, Vias
<1>1. /\ call[c] \in CallState /\ CallOK(c) /\ users \subseteq Ids /\ 0 \notin Ids
      /\ online \subseteq Ids
  BY TypesApart DEF TypeInv, RestOK
<1>2. ASSUME End(c), UNCHANGED <<rows, default, linkRows, history>>, online' \subseteq Ids
      PROVE  Moves(c)
  BY <1>2, EndCall DEF Moves
<1>3. ASSUME usedIds # Ids, call[c].pc \in {"insert", "create"}, NEW on \in BOOLEAN,
             NEW root \in BOOLEAN, InsertUser(call[c].email, on, root), ~UniqueRefuses(call[c].email)
      PROVE  LET u == NextId(Ids, usedIds)
             IN  /\ u \in Ids \ usedIds /\ call[c].email \in Emails /\ ~Taken(call[c].email)
                 /\ users' = users \union {u} /\ usedIds' = usedIds \union {u}
                 /\ email' = [email EXCEPT ![u] = call[c].email]
                 /\ active' = [active EXCEPT ![u] = on]
                 /\ roots \subseteq roots' /\ roots' \subseteq roots \union {u}
  <2>1. NextId(Ids, usedIds) \in Ids \ usedIds
    BY <1>3, TypesApart, NextIdIsNew
  <2> QED
    BY <1>1, <1>3, <2>1 DEF InsertUser, UniqueRefuses, CallOK
<1>4. CASE CreateSave(c)
  <2>1. CASE UniqueRefuses(call[c].email)
    BY <1>1, <1>2, <1>4, <2>1 DEF CreateSave
  <2>2. CASE ~UniqueRefuses(call[c].email)
    <3> DEFINE u == NextId(Ids, usedIds)
               pc == IF call[c].kind = "register" THEN "login" ELSE "done"
    <3>1. /\ call[c].pc = "insert" /\ usedIds # Ids /\ ~Pending(call[c].email)
          /\ InsertUser(call[c].email, call[c].on, call[c].root)
          /\ call' = [call EXCEPT ![c].pc = pc, ![c].user = u]
          /\ UNCHANGED <<default, linkRows, online, history>>
      BY <1>4, <2>2 DEF CreateSave, InsertUser
    <3>2. call[c].on \in BOOLEAN /\ call[c].root \in BOOLEAN
      BY <1>1 DEF CallState
    <3>3. /\ u \in Ids \ usedIds /\ call[c].email \in Emails /\ ~Taken(call[c].email)
          /\ users' = users \union {u} /\ usedIds' = usedIds \union {u}
          /\ email' = [email EXCEPT ![u] = call[c].email]
          /\ active' = [active EXCEPT ![u] = call[c].on]
          /\ roots \subseteq roots' /\ roots' \subseteq roots \union {u}
      BY <1>3, <2>2, <3>1, <3>2
    <3>4. pc \in {"login", "done"}
      OBVIOUS
    <3> HIDE DEF pc, u
    <3>5. Continued(c, pc, u, call[c].via, call[c].link)
      BY <3>1, <3>3, <3>4, SetTwo
    <3> QED
      BY <3>1, <3>2, <3>3, <3>4, <3>5 DEF Inserts
  <2> QED
    BY <2>1, <2>2
<1>5. CASE RegisterLogin(c)
  <2>1. CASE call[c].user \in FoundByEmail(call[c].email)
    <3>1. Continued(c, "sign", call[c].user, "email", call[c].link)
      BY <1>5, <2>1, SetTwo DEF RegisterLogin
    <3> QED
      BY <1>1, <1>5, <2>1, <3>1 DEF RegisterLogin, FoundByEmail, Moves
  <2>2. CASE call[c].user \notin FoundByEmail(call[c].email)
    BY <1>1, <1>2, <1>5, <2>2 DEF RegisterLogin
  <2> QED
    BY <2>1, <2>2
<1>6. CASE Sign(c)
  <2>1. CASE call[c].user \in users
    BY <1>1, <1>6, <2>1, GoOnCall DEF Sign, Moves
  <2>2. CASE call[c].user \notin users
    BY <1>1, <1>2, <1>6, <2>2 DEF Sign
  <2> QED
    BY <2>1, <2>2
<1>7. CASE SetKey(c)
  <2>1. online' \subseteq Ids
    BY <1>1, <1>7 DEF SetKey, CallOK
  <2> QED
    BY <1>7, <2>1, GoOnCall DEF SetKey, Moves
<1>8. CASE OAuthByEmail(c)
  <2> DEFINE found == FoundByEmail(call[c].email)
             u == First(found)
  <2>1. CASE found = {}
    <3>1. GoOn(c, "create")
      BY <1>8, <2>1 DEF OAuthByEmail, GoOn
    <3> QED
      BY <1>1, <1>8, <3>1, GoOnCall DEF OAuthByEmail, Moves
  <2>2. CASE found # {}
    <3>1. u \in users /\ active[u]
      BY <2>2, FoundActive
    <3>2. call' = [call EXCEPT ![c].pc = "link", ![c].user = u, ![c].via = "email"]
      BY <1>8, <2>2 DEF OAuthByEmail
    <3> HIDE DEF u
    <3>3. Continued(c, "link", u, "email", call[c].link)
      BY <1>1, <3>1, <3>2, SetTwo
    <3> QED
      BY <1>1, <1>8, <3>1, <3>3 DEF OAuthByEmail, Moves
  <2> QED
    BY <2>1, <2>2
<1>9. CASE OAuthCreate(c)
  <2>1. CASE ~default \/ UniqueRefuses(call[c].email)
    BY <1>1, <1>2, <1>9, <2>1 DEF OAuthCreate
  <2>2. CASE ~(~default \/ UniqueRefuses(call[c].email))
    <3> DEFINE u == NextId(Ids, usedIds)
    <3>1. /\ call[c].pc = "create" /\ usedIds # Ids /\ ~Pending(call[c].email)
          /\ InsertUser(call[c].email, TRUE, FALSE)
          /\ call' = [call EXCEPT ![c].pc = "link", ![c].user = u, ![c].via = "new"]
          /\ UNCHANGED <<default, linkRows, online, history>>
      BY <1>9, <2>2 DEF OAuthCreate, InsertUser
    <3>2. /\ u \in Ids \ usedIds /\ call[c].email \in Emails /\ ~Taken(call[c].email)
          /\ users' = users \union {u} /\ usedIds' = usedIds \union {u}
          /\ email' = [email EXCEPT ![u] = call[c].email]
          /\ active' = [active EXCEPT ![u] = TRUE]
          /\ roots \subseteq roots' /\ roots' \subseteq roots \union {u}
      BY <1>3, <2>2, <3>1
    <3> HIDE DEF u
    <3>3. Continued(c, "link", u, "new", call[c].link)
      BY <3>1, <3>2, SetTwo
    <3> QED
      BY <3>1, <3>2, <3>3 DEF Inserts
  <2> QED
    BY <2>1, <2>2
<1>10. CASE LinkFind(c)
  <2> DEFINE r == call[c]
             found == LinksOfUser(r.user, r.provider)
  <2>1. /\ r.pc = "link" /\ r.user \in Ids /\ r.provider \in Providers
        /\ UNCHANGED <<rows, default, linkRows, online, disabled, demoted>>
    BY <1>1, <1>10 DEF LinkFind, CallOK, LinkPcs
  <2>2. PICK l \in Found(found) : call' = [call EXCEPT ![c].pc = "saveLink", ![c].link = l]
    BY <1>10 DEF LinkFind
  <2>3. l \in LinkIds \union {NewLink}
    BY <2>2 DEF Found, LinksOfUser, TypeInv, LinksOK
  <2>4. Continued(c, "saveLink", r.user, r.via, l)
    BY <2>2, <2>3, SetTwo
  <2>5. overlapped' = IF found = {} /\ SameLinkPending(c)
                      THEN [overlapped EXCEPT !.user = @ \union {<<r.user, r.provider>>}]
                      ELSE overlapped
    BY <1>10 DEF LinkFind
  <2>6. overlapped \in [pid : SUBSET (Providers \X Pids), user : SUBSET (Ids \X Providers)]
    BY DEF TypeInv, RestOK
  <2>7. <<r.user, r.provider>> \in Ids \X Providers
    BY <2>1
  <2>8. /\ overlapped' \in [pid : SUBSET (Providers \X Pids), user : SUBSET (Ids \X Providers)]
        /\ overlapped'.pid = overlapped.pid /\ overlapped.user \subseteq overlapped'.user
        /\ found = {} /\ SameLinkPending(c) => <<r.user, r.provider>> \in overlapped'.user
    <3> HIDE DEF r, found
    <3> QED
      BY <2>5, <2>6, <2>7
  <2> QED
    BY <2>1, <2>2, <2>3, <2>4, <2>8 DEF Finds
<1>11. CASE SaveLink(c)
  <2>1. CASE call[c].user \notin users
    BY <1>1, <1>2, <1>11, <2>1 DEF SaveLink
  <2>2. CASE call[c].user \in users
    <3> DEFINE id == IF call[c].link = NewLink THEN NextId(LinkIds, usedLinks) ELSE call[c].link
    <3>1. /\ call[c].pc = "saveLink" /\ GoOn(c, "sign")
          /\ call[c].link = NewLink => usedLinks # LinkIds
          /\ UNCHANGED <<rows, default, online, history>>
          /\ links' = {l \in links : l.id # id} \union
                           {[id |-> id, user |-> call[c].user, provider |-> call[c].provider,
                             pid |-> call[c].pid]}
          /\ usedLinks' = usedLinks \union {id}
      BY <1>11, <2>2 DEF SaveLink
    <3>2. call[c].link = NewLink => NextId(LinkIds, usedLinks) \in LinkIds \ usedLinks
      BY <3>1, TypesApart, NextIdIsNew DEF TypeInv, LinksOK
    <3>3. /\ id \in LinkIds
          /\ IF call[c].link = NewLink THEN id \notin usedLinks ELSE id = call[c].link
      BY <1>1, <3>2 DEF CallState
    <3>4. GoesOn(c, "sign")
      BY <3>1, GoOnCall
    <3> HIDE DEF id
    <3> QED
      BY <2>2, <3>1, <3>3, <3>4 DEF Stores
  <2> QED
    BY <2>1, <2>2
<1>12. CASE UpdateForbid(c)
  <2>1. online' \subseteq Ids
    BY <1>1, <1>12 DEF UpdateForbid
  <2> QED
    BY <1>12, <2>1, GoOnCall DEF UpdateForbid, Moves
<1>13. CASE DeleteForbid(c)
  <2>1. online' \subseteq Ids
    BY <1>1, <1>13 DEF DeleteForbid
  <2> QED
    BY <1>2, <1>13, <2>1 DEF DeleteForbid
<1> QED
  BY <1>4, <1>5, <1>6, <1>7, <1>8, <1>9, <1>10, <1>11, <1>12, <1>13 DEF Step

-----------------------------------------------------------------------------
(* The type invariant is inductive.                                          *)

LEMMA CallsKept ==
    ASSUME CallsOK, NEW c \in Calls, OthersKept(c), CallOK(c)'
    PROVE  CallsOK'
<1>1. ASSUME NEW d \in Calls \ {c} PROVE CallOK(d)'
  <2>1. call'[d] = call[d] /\ CallOK(d)
    BY DEF OthersKept, CallsOK
  <2> QED
    BY <2>1 DEF CallOK
<1> QED
  BY <1>1 DEF CallsOK, OthersKept

(* The claims of the others stand, and a claim of the call is like them.     *)
LEMMA ClaimsKept ==
    ASSUME TypeInv, NEW c \in Calls, OthersKept(c),
           \A d \in Calls \ {c} : Updating(d) => OnlyOf(call[d].email, call[d].user)',
           Updating(c)' => /\ OnlyOf(call[c].email, call[c].user)'
                           /\ \A d \in Calls \ {c} : Updating(d) => call[d].email # call'[c].email
    PROVE  ClaimsOK'
<1>1. \A d \in Calls \ {c} : call'[d] = call[d] /\ (Updating(d)' <=> Updating(d))
  BY DEF OthersKept, Updating
<1>2. \A d \in Calls : Updating(d)' => OnlyOf(call[d].email, call[d].user)'
  BY <1>1
<1>3. ASSUME NEW d \in Calls, NEW e \in Calls, Updating(d)', Updating(e)', d # e
      PROVE  call'[d].email # call'[e].email
  BY <1>1, <1>3 DEF TypeInv, ClaimsOK
<1> QED
  BY <1>2, <1>3 DEF ClaimsOK

(* A step that makes no claim, and writes no email somebody claimed.         *)
LEMMA ClaimsFrame ==
    ASSUME TypeInv, NEW c \in Calls, OthersKept(c), ~Updating(c)',
           \A d \in Calls \ {c} : Updating(d) =>
               /\ call[d].user \in users'
               /\ \A v \in users' : v \notin users \/ email'[v] # email[v]
                                     => email'[v] # call[d].email
    PROVE  ClaimsOK'
<1>1. ASSUME NEW d \in Calls \ {c}, Updating(d) PROVE OnlyOf(call[d].email, call[d].user)'
  <2>1. call'[d] = call[d]
    BY DEF OthersKept
  <2>2. OnlyOf(call[d].email, call[d].user)
    BY <1>1 DEF TypeInv, ClaimsOK
  <2> QED
    BY <1>1, <2>1, <2>2 DEF OnlyOf
<1> QED
  BY <1>1, ClaimsKept

LEMMA RowsKept == ASSUME RowsOK, UNCHANGED rows PROVE RowsOK'
BY DEF RowsOK

LEMMA LinksKept ==
    ASSUME LinksOK, users \subseteq users', UNCHANGED linkRows
    PROVE  LinksOK'
BY DEF LinksOK

(* A step that writes no row and no link.                                    *)
LEMMA NothingWritten ==
    ASSUME TypeInv, NEW c \in Calls, OthersKept(c), CallOK(c)', RestOK',
           UNCHANGED <<rows, linkRows>>,
           Updating(c)' => /\ OnlyOf(call'[c].email, call'[c].user)
                           /\ \A d \in Calls \ {c} : Updating(d) => call[d].email # call'[c].email
    PROVE  TypeInv'
<1>1. UNCHANGED users /\ RowsOK' /\ LinksOK'
  BY RowsKept, LinksKept DEF TypeInv
<1>2. CallsOK'
  BY CallsKept DEF TypeInv
<1>3. \A d \in Calls \ {c} : Updating(d) => OnlyOf(call[d].email, call[d].user)'
  BY DEF OthersKept, TypeInv, ClaimsOK, OnlyOf
<1>4. Updating(c)' => OnlyOf(call[c].email, call[c].user)'
  BY DEF OnlyOf
<1>5. ClaimsOK'
  BY <1>3, <1>4, ClaimsKept
<1> QED
  BY <1>1, <1>2, <1>5 DEF TypeInv

LEMMA BeginsTyped == ASSUME TypeInv, NEW c \in Calls, Begins(c) PROVE TypeInv'
<1>1. OthersKept(c) /\ UNCHANGED <<rows, linkRows>>
  BY DEF Begins, Began
<1>2. RestOK'
  <2>1. {u \in users : ~active[u]} \in SUBSET Ids
    BY TypesApart
  <2>2. disabled' \in [Calls -> SUBSET Ids]
    BY <2>1 DEF Begins, Began, TypeInv, RestOK
  <2> QED
    BY <2>2 DEF Begins, Began, Overlaps, TypeInv, RestOK
<1>3. CallOK(c)'
  <2>1. UNCHANGED users /\ users \subseteq Ids
    BY <1>1, TypesApart
  <2>2. CASE BeginsOther(call'[c])
    BY <2>1, <2>2 DEF BeginsOther, CallOK, LinkPcs
  <2>3. CASE BeginsLinked(call'[c])
    BY <2>1, <2>3 DEF BeginsLinked, CallOK, LinkPcs, LinksOf, TypeInv, LinksOK
  <2>4. CASE BeginsUnlinked(c, call'[c])
    BY <2>1, <2>4 DEF BeginsUnlinked, CallOK, LinkPcs
  <2> QED
    BY <2>2, <2>3, <2>4 DEF Begins
<1>4. ASSUME Updating(c)'
      PROVE  /\ OnlyOf(call'[c].email, call'[c].user)
             /\ \A d \in Calls \ {c} : Updating(d) => call[d].email # call'[c].email
  <2>1. OnlyOf(call'[c].email, call'[c].user) /\ ~Pending(call'[c].email)
    BY <1>4 DEF Updating, Begins, BeginsOther, BeginsLinked, BeginsUnlinked
  <2> QED
    BY <2>1 DEF Pending
<1> QED
  BY <1>1, <1>2, <1>3, <1>4, NothingWritten

LEMMA MovesTyped == ASSUME TypeInv, NEW c \in Calls, Moves(c) PROVE TypeInv'
<1>1. UNCHANGED users /\ users \subseteq Ids /\ CallOK(c)
  BY TypesApart DEF Moves
<1>2. OthersKept(c) /\ CallOK(c)'
  <2> USE DEF GoesOn, Continued, CallOK, LinkPcs
  <2>1. CASE Ends(c)
    BY <2>1 DEF Ends
  <2>2. CASE call[c].pc = "sign" /\ call[c].user \in users /\ GoesOn(c, "key")
    BY <1>1, <2>2
  <2>3. CASE call[c].pc = "key" /\ GoesOn(c, "in")
    BY <2>3
  <2>4. CASE call[c].pc = "byEmail" /\ GoesOn(c, "create")
    BY <1>1, <2>4
  <2>5. CASE call[c].pc = "forbid" /\ GoesOn(c, "commit")
    BY <1>1, <2>5
  <2>6. CASE Continued(c, "sign", call[c].user, "email", call[c].link)
    BY <2>6
  <2>7. ASSUME call[c].pc = "byEmail", NEW u \in users,
               Continued(c, "link", u, "email", call[c].link)
        PROVE  OthersKept(c) /\ CallOK(c)'
    BY <1>1, <2>7
  <2> QED
    BY <2>1, <2>2, <2>3, <2>4, <2>5, <2>6, <2>7 DEF Moves
<1>3. RestOK'
  BY DEF Moves, TypeInv, RestOK
<1>4. Updating(c)' => Updating(c) /\ call'[c].email = call[c].email /\ call'[c].user = call[c].user
  BY DEF Moves, Ends, GoesOn, Continued, Updating
<1> QED
  BY <1>2, <1>3, <1>4, NothingWritten DEF Moves, TypeInv, ClaimsOK

LEMMA FindsTyped == ASSUME TypeInv, NEW c \in Calls, Finds(c) PROVE TypeInv'
<1>1. CallOK(c) /\ call[c].pc = "link"
  BY TypesApart DEF Finds
<1>2. PICK l \in LinkIds \union {NewLink} : Continued(c, "saveLink", call[c].user, call[c].via, l)
  BY DEF Finds
<1>3. OthersKept(c) /\ CallOK(c)'
  BY <1>1, <1>2 DEF Continued, CallOK, LinkPcs
<1>4. RestOK' /\ ~Updating(c)'
  BY <1>2 DEF Finds, Continued, Updating, TypeInv, RestOK
<1> QED
  BY <1>3, <1>4, NothingWritten DEF Finds

LEMMA InsertsTyped == ASSUME TypeInv, NEW c \in Calls, Inserts(c) PROVE TypeInv'
<1>1. PICK u \in Ids \ usedIds, on \in BOOLEAN :
          /\ users' = users \union {u} /\ usedIds' = usedIds \union {u}
          /\ email' = [email EXCEPT ![u] = call[c].email]
          /\ active' = [active EXCEPT ![u] = on]
          /\ roots \subseteq roots' /\ roots' \subseteq roots \union {u}
          /\ \/ /\ call[c].pc = "insert"
                /\ \E pc \in {"login", "done"} : Continued(c, pc, u, call[c].via, call[c].link)
             \/ call[c].pc = "create" /\ Continued(c, "link", u, "new", call[c].link)
  BY DEF Inserts
<1>2. /\ UNCHANGED <<default, linkRows, online, history>>
      /\ call[c].email \in Emails /\ ~Taken(call[c].email) /\ ~Pending(call[c].email)
  BY DEF Inserts
<1>3. RowsOK'
  <2>1. u \notin users /\ RowsOK
    BY <1>1 DEF TypeInv, RowsOK
  <2>2. email'[u] = call[c].email /\ \A v \in Ids \ {u} : email'[v] = email[v]
    BY <1>1, <2>1 DEF RowsOK
  <2>3. active'[u] = on /\ \A v \in Ids \ {u} : active'[v] = active[v]
    BY <1>1, <2>1 DEF RowsOK
  <2>4. \A v \in Ids : (email'[v] # NoEmail <=> v \in users') /\ (active'[v] => v \in users')
    BY <1>1, <1>2, <2>1, <2>2, <2>3 DEF RowsOK
  <2>5. \A v \in users : email[v] # call[c].email
    BY <1>2 DEF Taken
  <2>6. \A v, w \in users' : email'[v] = email'[w] => v = w
    <3>1. \A v \in users : v \in Ids /\ v # u /\ email'[v] = email[v] /\ email'[v] # email'[u]
      BY <1>1, <2>1, <2>2, <2>5 DEF RowsOK
    <3>2. \A v, w \in users : email[v] = email[w] => v = w
      BY <2>1 DEF RowsOK
    <3>3. \A v \in users' : v \in users \/ v = u
      BY <1>1
    <3> QED
      BY <3>1, <3>2, <3>3
  <2>7. email' \in [Ids -> Emails \union {NoEmail}] /\ active' \in [Ids -> BOOLEAN]
    BY <1>1, <1>2, <2>1 DEF RowsOK
  <2> QED
    BY <1>1, <2>1, <2>4, <2>6, <2>7 DEF RowsOK
<1>4. LinksOK'
  BY <1>1, <1>2, LinksKept DEF TypeInv
<1>5. RestOK'
  BY <1>2 DEF TypeInv, RestOK
<1>6. OthersKept(c) /\ CallOK(c)'
  <2>1. CallOK(c)
    BY TypesApart
  <2>2. ASSUME NEW pc \in {"login", "done"}, Continued(c, pc, u, call[c].via, call[c].link)
        PROVE  OthersKept(c) /\ CallOK(c)'
    BY <1>2, <2>2 DEF Continued, CallOK, LinkPcs
  <2>3. CASE call[c].pc = "create" /\ Continued(c, "link", u, "new", call[c].link)
    BY <2>1, <2>3 DEF Continued, CallOK, LinkPcs
  <2> QED
    BY <1>1, <2>2, <2>3
<1>7. CallsOK'
  BY <1>6, CallsKept DEF TypeInv
<1>8. ClaimsOK'
  <2>1. ~Updating(c)'
    BY <1>1 DEF Continued, Updating
  <2>2. \A d \in Calls : Updating(d) => call[d].user \in users /\ call[d].email # call[c].email
    BY <1>2 DEF Pending, TypeInv, ClaimsOK, OnlyOf
  <2>3. \A v \in users' : v \notin users \/ email'[v] # email[v] => email'[v] = call[c].email
    BY <1>1 DEF TypeInv, RowsOK
  <2> QED
    BY <1>1, <1>6, <2>1, <2>2, <2>3, ClaimsFrame
<1> QED
  BY <1>3, <1>4, <1>5, <1>7, <1>8 DEF TypeInv

LEMMA StoresTyped == ASSUME TypeInv, NEW c \in Calls, Stores(c) PROVE TypeInv'
<1> DEFINE r == call[c]
<1>1. /\ CallOK(c) /\ r.pc = "saveLink" /\ r.user \in users /\ GoesOn(c, "sign")
      /\ UNCHANGED <<rows, default, online, history>>
  BY TypesApart DEF Stores
<1>2. PICK id \in LinkIds :
         /\ links' = {l \in links : l.id # id} \union
                      {[id |-> id, user |-> r.user, provider |-> r.provider, pid |-> r.pid]}
         /\ usedLinks' = usedLinks \union {id}
  BY DEF Stores
<1>3. LinksOK'
  <2>1. r.provider \in Providers /\ r.pid \in Pids
    BY <1>1 DEF CallOK, LinkPcs
  <2> HIDE DEF r
  <2> DEFINE new == [id |-> id, user |-> r.user, provider |-> r.provider, pid |-> r.pid]
  <2>2. new \in [id : usedLinks', user : users', provider : Providers, pid : Pids] /\ new.id = id
    BY <1>1, <1>2, <2>1 DEF r
  <2>3. \A l \in links : l \in [id : usedLinks', user : users', provider : Providers, pid : Pids]
    BY <1>1, <1>2 DEF TypeInv, LinksOK
  <2>4. links' = {l \in links : l.id # id} \union {new}
    BY <1>2
  <2> HIDE DEF new
  <2>5. \A l, k \in links' : l.id = k.id => l = k
    BY <2>2, <2>4 DEF TypeInv, LinksOK
  <2>6. usedLinks' \subseteq LinkIds
    BY <1>2 DEF TypeInv, LinksOK
  <2> QED
    BY <2>2, <2>3, <2>4, <2>5, <2>6 DEF LinksOK
<1>4. RowsOK' /\ RestOK' /\ UNCHANGED users
  BY <1>1, RowsKept DEF TypeInv, RestOK
<1>5. OthersKept(c) /\ CallOK(c)'
  BY <1>1 DEF GoesOn, Continued, CallOK, LinkPcs
<1>6. CallsOK'
  BY <1>5, CallsKept DEF TypeInv
<1>7. ClaimsOK'
  <2>1. ~Updating(c)' /\ UNCHANGED <<users, email>>
    BY <1>1 DEF GoesOn, Continued, Updating
  <2> QED
    BY <1>5, <2>1, ClaimsFrame DEF TypeInv, ClaimsOK, OnlyOf
<1> QED
  BY <1>3, <1>4, <1>6, <1>7 DEF TypeInv

LEMMA AccountSaveTyped == ASSUME TypeInv, NEW c \in Calls, AccountSave(c) PROVE TypeInv'
<1> DEFINE u == call[c].user
           e == call[c].email
<1>1. /\ CallOK(c) /\ call[c].pc = "setEmail" /\ Ends(c) /\ ~Pending(e)
      /\ UNCHANGED <<users, usedIds, active, roots, default, linkRows, online, history>>
  BY TypesApart, EndCall DEF AccountSave
<1>2. u \in Ids /\ e \in Emails /\ e # NoEmail
  BY <1>1 DEF CallOK
<1>3. \/ UNCHANGED email
      \/ /\ u \in users /\ email' = [email EXCEPT ![u] = e]
         /\ email[u] = e \/ \A v \in users : email[v] # e
  BY DEF AccountSave, UniqueRefuses, Taken
<1> HIDE DEF u, e
<1>4. RowsOK'
  <2>1. RowsOK
    BY DEF TypeInv
  <2>2. CASE UNCHANGED email
    BY <1>1, <2>1, <2>2, RowsKept
  <2>3. CASE /\ u \in users /\ email' = [email EXCEPT ![u] = e]
             /\ email[u] = e \/ \A v \in users : email[v] # e
    <3>1. email'[u] = e /\ \A v \in Ids \ {u} : email'[v] = email[v]
      BY <1>2, <2>1, <2>3 DEF RowsOK
    <3>2. \A v \in users \ {u} : email[v] # e
      BY <2>1, <2>3 DEF RowsOK
    <3>3. \A v, w \in users' : email'[v] = email'[w] => v = w
      BY <1>1, <2>1, <3>1, <3>2 DEF RowsOK
    <3>4. \A v \in Ids : email'[v] # NoEmail <=> v \in users'
      BY <1>1, <1>2, <2>1, <2>3, <3>1 DEF RowsOK
    <3>5. email' \in [Ids -> Emails \union {NoEmail}]
      BY <1>2, <2>1, <2>3 DEF RowsOK
    <3> QED
      BY <1>1, <2>1, <3>3, <3>4, <3>5 DEF RowsOK
  <2> QED
    BY <1>3, <2>2, <2>3
<1>5. LinksOK' /\ RestOK'
  BY <1>1, LinksKept DEF TypeInv, RestOK
<1>6. OthersKept(c) /\ CallOK(c)' /\ ~Updating(c)'
  BY <1>1 DEF Ends, CallOK, LinkPcs, Updating
<1>7. CallsOK'
  BY <1>6, CallsKept DEF TypeInv
<1>8. ClaimsOK'
  <2>1. \A d \in Calls : Updating(d) => call[d].user \in users /\ call[d].email # e
    BY <1>1 DEF Pending, TypeInv, ClaimsOK, OnlyOf
  <2>2. \A v \in users' : v \in users /\ (email'[v] # email[v] => email'[v] = e)
    BY <1>1, <1>3 DEF TypeInv, RowsOK
  <2> QED
    BY <1>1, <1>6, <2>1, <2>2, ClaimsFrame
<1> QED
  BY <1>4, <1>5, <1>7, <1>8 DEF TypeInv

LEMMA UpdateCommitTyped == ASSUME TypeInv, NEW c \in Calls, UpdateCommit(c) PROVE TypeInv'
<1> DEFINE u == call[c].user
           on == call[c].on
           e == call[c].email
<1>1. /\ CallOK(c) /\ call[c].pc = "commit" /\ Ends(c)
      /\ email' = [email EXCEPT ![u] = e]
      /\ active' = [active EXCEPT ![u] = on]
      /\ roots' \subseteq roots \union {u}
      /\ disabled' = [d \in Calls |-> IF on THEN disabled[d] \ {u} ELSE disabled[d]]
      /\ UNCHANGED <<users, usedIds, default, linkRows, online, overlapped>>
  BY TypesApart, EndCall DEF UpdateCommit
<1>2. /\ u \in users /\ on \in BOOLEAN /\ e \in Emails /\ OnlyOf(e, u)
      /\ \A d \in Calls \ {c} : Updating(d) => call[d].email # e
  <2>1. Updating(c)
    BY <1>1 DEF Updating
  <2>2. OnlyOf(e, u) /\ \A d \in Calls \ {c} : Updating(d) => call[d].email # e
    BY <2>1 DEF TypeInv, ClaimsOK
  <2> QED
    BY <2>2, TypesApart DEF OnlyOf, CallState
<1>3. demoted' \in BOOLEAN
  BY DEF UpdateCommit
<1> HIDE DEF u, on, e
<1>4. RowsOK'
  <2>1. RowsOK /\ u \in Ids
    BY <1>2 DEF TypeInv, RowsOK
  <2>2. active' \in [Ids -> BOOLEAN] /\ \A v \in Ids \ {u} : active'[v] = active[v]
    BY <1>1, <1>2, <2>1 DEF RowsOK
  <2>3. /\ email' \in [Ids -> Emails \union {NoEmail}] /\ email'[u] = e
        /\ \A v \in Ids \ {u} : email'[v] = email[v]
    BY <1>1, <1>2, <2>1 DEF RowsOK
  <2>4. \A v, w \in users' : email'[v] = email'[w] => v = w
    BY <1>1, <1>2, <2>1, <2>3 DEF RowsOK, OnlyOf
  <2>5. \A v \in Ids : (email'[v] # NoEmail <=> v \in users') /\ (active'[v] => v \in users')
    BY <1>1, <1>2, <2>1, <2>2, <2>3 DEF RowsOK
  <2>6. users' \subseteq usedIds' /\ usedIds' \subseteq Ids /\ roots' \subseteq users'
    BY <1>1, <1>2, <2>1 DEF RowsOK
  <2> QED
    BY <2>2, <2>3, <2>4, <2>5, <2>6 DEF RowsOK
<1>5. LinksOK'
  BY <1>1, LinksKept DEF TypeInv
<1>6. RestOK'
  <2>1. \A d \in Calls : disabled[d] \subseteq Ids
    BY DEF TypeInv, RestOK
  <2>2. disabled' \in [Calls -> SUBSET Ids]
    BY <1>1, <2>1
  <2> QED
    BY <1>1, <1>3, <2>2 DEF TypeInv, RestOK
<1>7. OthersKept(c) /\ CallOK(c)' /\ ~Updating(c)'
  BY <1>1 DEF Ends, CallOK, LinkPcs, Updating
<1>8. CallsOK'
  BY <1>7, CallsKept DEF TypeInv
<1>9. ClaimsOK'
  <2>1. \A d \in Calls : Updating(d) => call[d].user \in users
    BY DEF TypeInv, ClaimsOK, OnlyOf
  <2>2. \A v \in users' : v \in users /\ (email'[v] # email[v] => email'[v] = e)
    BY <1>1 DEF TypeInv, RowsOK
  <2> QED
    BY <1>1, <1>2, <1>7, <2>1, <2>2, ClaimsFrame
<1> QED
  BY <1>4, <1>5, <1>6, <1>8, <1>9 DEF TypeInv

LEMMA DeleteRowsTyped == ASSUME TypeInv, NEW c \in Calls, DeleteRows(c) PROVE TypeInv'
<1> DEFINE gone == call[c].ids \intersect users
<1>1. /\ call[c].pc = "delete" /\ \A u \in gone : ~Locked(u)
      /\ users' = users \ gone
      /\ email' = [u \in Ids |-> IF u \in gone THEN NoEmail ELSE email[u]]
      /\ active' = [u \in Ids |-> active[u] /\ u \notin gone]
      /\ roots' = roots \ gone
      /\ links' = {l \in links : l.user \notin gone}
      /\ GoesOn(c, "forbidAll")
      /\ UNCHANGED <<usedIds, default, usedLinks, online, history>>
  BY GoOnCall DEF DeleteRows, Cascaded, Pcs
<1>2. gone \subseteq users
  OBVIOUS
<1> HIDE DEF gone
<1>3. RowsOK'
  <2>1. RowsOK
    BY DEF TypeInv
  <2>2. \A u \in Ids : /\ u \in gone => email'[u] = NoEmail /\ ~active'[u]
                       /\ u \notin gone => email'[u] = email[u] /\ (active'[u] <=> active[u])
    BY <1>1, <2>1 DEF RowsOK
  <2>3. email' \in [Ids -> Emails \union {NoEmail}] /\ active' \in [Ids -> BOOLEAN]
    BY <1>1, <2>1 DEF RowsOK
  <2>4. \A u \in Ids : (email'[u] # NoEmail <=> u \in users') /\ (active'[u] => u \in users')
    BY <1>1, <1>2, <2>1, <2>2 DEF RowsOK
  <2>5. \A u, v \in users' : email'[u] = email'[v] => u = v
    BY <1>1, <2>1, <2>2 DEF RowsOK
  <2> QED
    BY <1>1, <2>1, <2>3, <2>4, <2>5 DEF RowsOK
<1>4. LinksOK'
  <2>1. \A l \in links' : l \in [id : usedLinks', user : users', provider : Providers, pid : Pids]
    BY <1>1 DEF TypeInv, LinksOK
  <2> QED
    BY <1>1, <2>1 DEF TypeInv, LinksOK
<1>5. RestOK'
  BY <1>1 DEF TypeInv, RestOK
<1>6. OthersKept(c) /\ CallOK(c)'
  BY <1>1 DEF GoesOn, Continued, CallOK, LinkPcs
<1>7. CallsOK'
  BY <1>6, CallsKept DEF TypeInv
<1>8. ClaimsOK'
  <2>1. ~Updating(c)'
    BY <1>1 DEF GoesOn, Continued, Updating
  <2>2. \A d \in Calls : Updating(d) => call[d].user \in users'
    BY <1>1 DEF Locked, TypeInv, ClaimsOK, OnlyOf
  <2>3. \A v \in users' : v \in users /\ email'[v] = email[v]
    BY <1>1, <1>2 DEF TypeInv, RowsOK
  <2> QED
    BY <1>6, <2>1, <2>2, <2>3, ClaimsFrame
<1> QED
  BY <1>3, <1>4, <1>5, <1>7, <1>8 DEF TypeInv

LEMMA TypeStep == TypeInv /\ [AccountsNext]_accountVars => TypeInv'
<1> SUFFICES ASSUME TypeInv, [AccountsNext]_accountVars PROVE TypeInv'
  OBVIOUS
<1>1. CASE UNCHANGED accountVars
  BY <1>1 DEF accountVars, TypeInv, RowsOK, LinksOK, RestOK, CallsOK, CallOK, ClaimsOK, OnlyOf,
            Updating
<1>2. ASSUME NEW c \in Calls, Start(c) \/ Step(c) PROVE TypeInv'
  BY <1>2, StartBegins, StepShape, BeginsTyped, MovesTyped, FindsTyped, InsertsTyped, StoresTyped,
     AccountSaveTyped, UpdateCommitTyped, DeleteRowsTyped
<1> QED
  BY <1>1, <1>2 DEF AccountsNext

(* AccountsTypeOK: the constraints of the schema hold, and every link belongs *)
(* to a user that exists (user.service.ts, auth.service.ts).                 *)
THEOREM AccountsTyped == AccountsSpec => []AccountsTypeOK
<1>1. TypeInv => AccountsTypeOK
  BY DEF TypeInv, RowsOK, LinksOK, RestOK, CallsOK, AccountsTypeOK
<1> QED
  BY <1>1, TypeInit, TypeStep, PTL DEF AccountsSpec

(* Every step has one of the shapes.                                         *)
Shapes(c) ==
    \/ Begins(c) \/ Moves(c) \/ Finds(c) \/ Inserts(c) \/ Stores(c)
    \/ AccountSave(c) \/ UpdateCommit(c) \/ DeleteRows(c)

LEMMA NextHasShape ==
    ASSUME TypeInv, AccountsNext
    PROVE  \E c \in Calls : Shapes(c)
BY StartBegins, StepShape DEF AccountsNext, Shapes

-----------------------------------------------------------------------------
(* The root user.  As long as nobody was demoted, the first user is root and *)
(* no deletion that was let through names it.                                *)

RootInv ==
    demoted \/ (1 \in roots /\ \A c \in Calls : call[c].pc = "delete" => 1 \notin call[c].ids)

LEMMA FirstRoot == ASSUME TypeInv, 1 \in roots PROVE First(roots) = 1
<1>1. roots \in SUBSET Nat /\ roots # {} /\ \A u \in roots : u >= 1
  BY DEF TypeInv, RowsOK
<1> DEFINE u == First(roots)
<1>2. u \in roots /\ u <= 1
  BY <1>1, FirstOf
<1> HIDE DEF u
<1>3. u \in Nat /\ u >= 1
  BY <1>1, <1>2
<1>4. u = 1
  BY <1>2, <1>3
<1> QED
  BY <1>4 DEF u

LEMMA RootInit == AccountsInit => RootInv
<1> SUFFICES ASSUME AccountsInit PROVE RootInv
  OBVIOUS
<1>1. 1 \in roots /\ call = [c \in Calls |-> NoCall]
  BY DEF AccountsInit
<1> QED
  BY <1>1, NewCall DEF RootInv

LEMMA RootStep == TypeInv /\ RootInv /\ [AccountsNext]_accountVars => RootInv'
<1> SUFFICES ASSUME TypeInv, RootInv, [AccountsNext]_accountVars PROVE RootInv'
  OBVIOUS
<1>1. CASE UNCHANGED accountVars
  BY <1>1 DEF accountVars, RootInv
<1> SUFFICES ASSUME NEW c \in Calls, Shapes(c) PROVE RootInv'
  BY <1>1, NextHasShape
(* The users with the role, and whom a deletion under way names.             *)
<1>2. ASSUME demoted => demoted', 1 \in roots => demoted' \/ 1 \in roots',
             OthersKept(c), call'[c].pc = "delete" => (1 \in roots => 1 \notin call'[c].ids)
      PROVE  RootInv'
  BY <1>2 DEF OthersKept, RootInv
<1>3. CASE Begins(c)
  <2>1. UNCHANGED <<roots, demoted>> /\ OthersKept(c)
    BY <1>3 DEF Begins, Began
  <2>2. ASSUME call'[c].pc = "delete", 1 \in roots PROVE 1 \notin call'[c].ids
    <3>1. ~RefusesRoot(call'[c].ids)
      BY <1>3, <2>2 DEF Begins, BeginsOther, BeginsLinked, BeginsUnlinked
    <3> QED
      BY <2>2, <3>1, FirstRoot DEF RefusesRoot
  <2> QED
    BY <1>2, <2>1, <2>2
<1>4. CASE Moves(c) \/ Finds(c)
  BY <1>2, <1>4 DEF Moves, Ends, Finds, GoesOn, Continued
<1>5. CASE Inserts(c)
  BY <1>2, <1>5 DEF Inserts, Continued
<1>6. CASE Stores(c)
  BY <1>2, <1>6 DEF Stores, GoesOn, Continued
<1>7. CASE AccountSave(c)
  <2>1. Ends(c) /\ UNCHANGED <<roots, demoted>>
    BY <1>7, EndCall DEF AccountSave
  <2> QED
    BY <1>2, <2>1 DEF Ends
<1>8. CASE UpdateCommit(c)
  <2>1. Ends(c)
    BY <1>8, EndCall DEF UpdateCommit
  <2>2. demoted => demoted'
    BY <1>8, Zenon DEF UpdateCommit
  <2>3. 1 \in roots => demoted' \/ 1 \in roots'
    BY <1>8 DEF UpdateCommit
  <2> QED
    BY <1>2, <2>1, <2>2, <2>3 DEF Ends
<1>9. CASE DeleteRows(c)
  <2>1. GoesOn(c, "forbidAll") /\ UNCHANGED demoted
    BY <1>9, GoOnCall DEF DeleteRows, Pcs
  <2>2. demoted \/ (1 \in roots => 1 \in roots')
    BY <1>9 DEF DeleteRows, RootInv
  <2> QED
    BY <1>2, <2>1, <2>2 DEF GoesOn, Continued
<1> QED
  BY <1>3, <1>4, <1>5, <1>6, <1>7, <1>8, <1>9 DEF Shapes

(* RootRemains: whatever deletions overlap, a root user is left as long as   *)
(* no update took the role from anybody (user.service.ts: delete, update).   *)
THEOREM RootIsLeft == AccountsSpec => []RootRemains
<1>1. RootInv => RootRemains
  BY DEF RootInv, RootRemains
<1> QED
  BY <1>1, TypeInit, TypeStep, RootInit, RootStep, PTL DEF AccountsSpec

-----------------------------------------------------------------------------
(* Disabled users.  A login that did not come through a link found its user  *)
(* active, or made it, after it began.                                       *)

DisabledInv ==
    /\ \A c \in Calls : \A u \in disabled[c] : u \in usedIds /\ ~active[u]
    /\ \A c \in Calls :
          call[c].pc \in {"sign", "key", "in", "link", "saveLink"} /\ call[c].user \in disabled[c]
             => call[c].via = "link"

LEMMA DisabledInit == AccountsInit => DisabledInv
<1> SUFFICES ASSUME AccountsInit PROVE DisabledInv
  OBVIOUS
<1>1. disabled = [c \in Calls |-> {}] /\ call = [c \in Calls |-> NoCall]
  BY DEF AccountsInit
<1> QED
  BY <1>1, NewCall DEF DisabledInv

LEMMA DisabledStep == TypeInv /\ DisabledInv /\ [AccountsNext]_accountVars => DisabledInv'
<1> SUFFICES ASSUME TypeInv, DisabledInv, [AccountsNext]_accountVars PROVE DisabledInv'
  OBVIOUS
<1>1. CASE UNCHANGED accountVars
  BY <1>1 DEF accountVars, DisabledInv
<1> SUFFICES ASSUME NEW c \in Calls, Shapes(c) PROVE DisabledInv'
  BY <1>1, NextHasShape
<1>2. disabled \in [Calls -> SUBSET Ids] /\ users \subseteq usedIds
  BY DEF TypeInv, RestOK, RowsOK
(* Nobody else is disabled, and the user of the call is not, if it did not   *)
(* come through a link.                                                      *)
<1>3. ASSUME OthersKept(c), \A d \in Calls : disabled'[d] \subseteq disabled[d],
             \A d \in Calls : \A u \in disabled'[d] : u \in usedIds' /\ ~active'[u],
             call'[c].pc \in {"sign", "key", "in", "link", "saveLink"}
                /\ call'[c].user \in disabled[c] => call'[c].via = "link"
      PROVE  DisabledInv'
  BY <1>3 DEF OthersKept, DisabledInv
<1>4. CASE Begins(c)
  <2>1. /\ disabled' = [disabled EXCEPT ![c] = {u \in users : ~active[u]}]
        /\ OthersKept(c) /\ UNCHANGED <<users, usedIds, active>>
    BY <1>4 DEF Begins, Began
  <2>2. \A d \in Calls : \A u \in disabled'[d] : u \in usedIds' /\ ~active'[u]
    BY <1>2, <2>1 DEF DisabledInv
  <2>3. call'[c].pc \in {"sign", "key", "in", "link", "saveLink"}
           /\ call'[c].user \in disabled'[c] => call'[c].via = "link"
    BY <1>2, <1>4, <2>1 DEF Begins, BeginsOther, BeginsLinked, BeginsUnlinked
  <2>4. \A d \in Calls \ {c} : disabled'[d] = disabled[d] /\ call'[d] = call[d]
    BY <1>2, <2>1 DEF OthersKept
  <2> QED
    BY <2>2, <2>3, <2>4 DEF DisabledInv
<1>5. CASE Moves(c)
  <2>1. UNCHANGED <<usedIds, active, disabled>>
    BY <1>5 DEF Moves
  <2>2. /\ OthersKept(c)
        /\ call'[c].pc \in {"sign", "key", "in", "link", "saveLink"}
              /\ call'[c].user \in disabled[c] => call'[c].via = "link"
    BY <1>5 DEF Moves, Ends, GoesOn, Continued, DisabledInv
  <2> QED
    BY <1>3, <2>1, <2>2 DEF DisabledInv
<1>6. CASE Finds(c)
  <2>1. UNCHANGED <<usedIds, active, disabled>>
    BY <1>6 DEF Finds
  <2>2. /\ OthersKept(c)
        /\ call'[c].user \in disabled[c] => call'[c].via = "link"
    BY <1>6 DEF Finds, Continued, DisabledInv
  <2> QED
    BY <1>3, <2>1, <2>2 DEF DisabledInv
<1>7. CASE Inserts(c)
  <2>1. PICK u \in Ids \ usedIds, on \in BOOLEAN :
          /\ usedIds' = usedIds \union {u} /\ active' = [active EXCEPT ![u] = on]
          /\ OthersKept(c) /\ call'[c].user = u
    BY <1>7 DEF Inserts, Continued
  <2>2. UNCHANGED disabled /\ \A d \in Calls : u \notin disabled[d]
    BY <1>7, <2>1 DEF Inserts, DisabledInv
  <2>3. \A v \in Ids \ {u} : active'[v] = active[v]
    BY <2>1 DEF TypeInv, RowsOK
  <2>4. \A d \in Calls : \A v \in disabled'[d] : v \in usedIds' /\ ~active'[v]
    BY <1>2, <2>1, <2>2, <2>3 DEF DisabledInv
  <2> QED
    BY <1>3, <2>1, <2>2, <2>4
<1>8. CASE Stores(c)
  <2>1. GoesOn(c, "sign") /\ call[c].pc = "saveLink" /\ UNCHANGED <<usedIds, active, disabled>>
    BY <1>8 DEF Stores
  <2> QED
    BY <1>3, <2>1 DEF GoesOn, Continued, DisabledInv
<1>9. CASE AccountSave(c)
  <2>1. Ends(c) /\ UNCHANGED <<usedIds, active, disabled>>
    BY <1>9, EndCall DEF AccountSave
  <2> QED
    BY <1>3, <2>1 DEF Ends, DisabledInv
<1>10. CASE UpdateCommit(c)
  <2> DEFINE u == call[c].user
             on == call[c].on
  <2>1. /\ Ends(c) /\ UNCHANGED usedIds /\ active' = [active EXCEPT ![u] = on]
        /\ disabled' = [d \in Calls |-> IF on THEN disabled[d] \ {u} ELSE disabled[d]]
    BY <1>10, EndCall DEF UpdateCommit
  <2>2. on \in BOOLEAN
    BY TypesApart DEF CallState
  <2> HIDE DEF u, on
  <2>3. \A d \in Calls : disabled'[d] \subseteq disabled[d] /\ (on => u \notin disabled'[d])
    BY <2>1
  <2>4. active \in [Ids -> BOOLEAN]
    BY DEF TypeInv, RowsOK
  <2>5. \A v \in Ids : v # u => active'[v] = active[v]
    BY <2>1, <2>4
  <2>6. ~on /\ u \in Ids => ~active'[u]
    BY <2>1, <2>2, <2>4
  <2>7. \A d \in Calls : \A v \in disabled'[d] : v \in usedIds' /\ ~active'[v]
    BY <1>2, <2>1, <2>3, <2>5, <2>6 DEF DisabledInv
  <2> QED
    BY <1>3, <2>1, <2>3, <2>7 DEF Ends
<1>11. CASE DeleteRows(c)
  <2>1. /\ GoesOn(c, "forbidAll") /\ UNCHANGED <<usedIds, disabled>>
        /\ active' = [u \in Ids |-> active[u] /\ u \notin (call[c].ids \intersect users)]
    BY <1>11, GoOnCall DEF DeleteRows, Pcs
  <2>2. \A u \in Ids : ~active[u] => ~active'[u]
    BY <2>1
  <2>3. \A d \in Calls : \A v \in disabled'[d] : v \in usedIds' /\ ~active'[v]
    BY <1>2, <2>1, <2>2 DEF DisabledInv
  <2> QED
    BY <1>3, <2>1, <2>3 DEF GoesOn, Continued
<1> QED
  BY <1>4, <1>5, <1>6, <1>7, <1>8, <1>9, <1>10, <1>11 DEF Shapes

(* DisabledOnlyByLink: a login of a user who was disabled before it began    *)
(* gets in through a link at an OAuth provider or not at all                 *)
(* (auth.service.ts: loginWithOAuth, loginWithEmail).                        *)
THEOREM DisabledStaysOut == AccountsSpec => []DisabledOnlyByLink
<1>1. DisabledInv => DisabledOnlyByLink
  BY DEF DisabledInv, DisabledOnlyByLink
<1> QED
  BY <1>1, TypeInit, TypeStep, DisabledInit, DisabledStep, PTL DEF AccountsSpec

-----------------------------------------------------------------------------
(* One link of a user at a provider.  A login that found a link of its user  *)
(* will save over that row; one that found none is the only one at its save, *)
(* unless another was there before it.                                       *)

Adding(c) == call[c].pc = "saveLink" /\ call[c].link = NewLink
Replacing(c) == call[c].pc = "saveLink" /\ call[c].link # NewLink

ReplaceInv ==
    \A c \in Calls : Replacing(c) =>
        /\ call[c].link \in usedLinks /\ call[c].user \in usedIds
        /\ \A l \in links : l.id = call[c].link =>
              l.user = call[c].user /\ l.provider = call[c].provider
        /\ call[c].user \in users => \E l \in links : l.id = call[c].link

Clear(u, p) ==
    /\ \A l, k \in LinksOfUser(u, p) : l = k
    /\ \A c \in Calls : Adding(c) /\ call[c].user = u /\ call[c].provider = p =>
          /\ LinksOfUser(u, p) = {}
          /\ \A d \in Calls : Adding(d) /\ call[d].user = u /\ call[d].provider = p => d = c
UserInv == \A u \in Ids, p \in Providers : <<u, p>> \notin overlapped.user => Clear(u, p)

LEMMA UserInit == AccountsInit => ReplaceInv /\ UserInv
<1> SUFFICES ASSUME AccountsInit PROVE ReplaceInv /\ UserInv
  OBVIOUS
<1>1. \A c \in Calls : call[c].pc = "idle"
  BY NewCall DEF AccountsInit
<1>2. \A l, k \in links : l = k
  BY DEF AccountsInit
<1> QED
  BY <1>1, <1>2 DEF ReplaceInv, UserInv, Clear, Replacing, Adding, LinksOfUser

(* What a step may do without touching this: take links away with their      *)
(* users, and start no save.                                                 *)
LEMMA UserFrame ==
    ASSUME TypeInv, ReplaceInv, UserInv, NEW c \in Calls, OthersKept(c),
           call'[c].pc # "saveLink", usedIds \subseteq usedIds', links' \subseteq links,
           usedLinks \subseteq usedLinks', \A l \in links \ links' : l.user \notin users',
           overlapped.user \subseteq overlapped'.user, \A u \in users' \ users : u \notin usedIds
    PROVE  ReplaceInv' /\ UserInv'
<1>1. \A d \in Calls : call'[d].pc = "saveLink" => call'[d] = call[d]
  BY DEF OthersKept
<1>2. ReplaceInv'
  BY <1>1 DEF ReplaceInv, Replacing
<1>3. UserInv'
  <2>1. \A u, p : LinksOfUser(u, p)' \subseteq LinksOfUser(u, p)
    BY DEF LinksOfUser
  <2>2. \A d \in Calls : Adding(d)' => Adding(d) /\ call'[d] = call[d]
    BY <1>1 DEF Adding
  <2>3. ASSUME NEW u \in Ids, NEW p \in Providers, Clear(u, p) PROVE Clear(u, p)'
    <3>1. \A l, k \in LinksOfUser(u, p)' : l = k
      BY <2>1, <2>3 DEF Clear
    <3>2. ASSUME NEW d \in Calls, Adding(d)', call'[d].user = u, call'[d].provider = p
          PROVE  /\ LinksOfUser(u, p)' = {}
                 /\ \A e \in Calls : Adding(e)' /\ call'[e].user = u /\ call'[e].provider = p => e = d
      BY <2>1, <2>2, <2>3, <3>2 DEF Clear
    <3> QED
      BY <3>1, <3>2 DEF Clear
  <2> QED
    BY <2>3 DEF UserInv
<1> QED
  BY <1>2, <1>3

LEMMA UserFinds ==
    ASSUME TypeInv, ReplaceInv, UserInv, NEW c \in Calls, Finds(c)
    PROVE  ReplaceInv' /\ UserInv'
<1> DEFINE r == call[c]
<1>1. /\ r.pc = "link" /\ CallOK(c) /\ r.user \in Ids /\ r.provider \in Providers
      /\ UNCHANGED <<users, usedIds, links, usedLinks>>
  BY TypesApart DEF Finds, CallOK, LinkPcs
<1>2. PICK l \in Found(LinksOfUser(r.user, r.provider)) :
          l \in LinkIds \union {NewLink} /\ Continued(c, "saveLink", r.user, r.via, l)
  BY DEF Finds
<1>3. \A d \in Calls \ {c} : call'[d] = call[d]
  BY <1>2 DEF Continued, OthersKept
<1>4. /\ call'[c].pc = "saveLink" /\ call'[c].user = r.user /\ call'[c].provider = r.provider
      /\ call'[c].link = l
  BY <1>2 DEF Continued
<1>5. l # NewLink => \E k \in LinksOfUser(r.user, r.provider) : k.id = l
  BY <1>2 DEF Found
<1>6. l = NewLink => LinksOfUser(r.user, r.provider) = {}
  BY <1>2 DEF Found, NewLink, LinksOfUser, TypeInv, LinksOK
<1> HIDE DEF r
<1>7. ReplaceInv'
  <2>1. ASSUME l # NewLink
        PROVE  /\ l \in usedLinks /\ r.user \in usedIds
               /\ \A k \in links : k.id = l => k.user = r.user /\ k.provider = r.provider
               /\ \E k \in links : k.id = l
    <3>1. PICK k \in links : k.id = l /\ k.user = r.user /\ k.provider = r.provider
      BY <1>5, <2>1 DEF LinksOfUser
    <3> QED
      BY <3>1 DEF TypeInv, LinksOK, RowsOK
  <2> QED
    BY <1>1, <1>3, <1>4, <2>1 DEF ReplaceInv, Replacing
<1>8. UserInv'
  <2>1. \A u, p : LinksOfUser(u, p)' = LinksOfUser(u, p)
    BY <1>1 DEF LinksOfUser
  <2>2. ASSUME NEW u \in Ids, NEW p \in Providers, <<u, p>> \notin overlapped'.user
        PROVE  Clear(u, p)'
    <3>1. Clear(u, p)
      BY <2>2 DEF Finds, UserInv
    <3>2. CASE l = NewLink /\ u = r.user /\ p = r.provider
      <4>1. LinksOfUser(u, p) = {} /\ ~SameLinkPending(c)
        BY <1>6, <2>2, <3>2 DEF Finds, r
      <4>2. \A d \in Calls \ {c} : ~(Adding(d) /\ call[d].user = u /\ call[d].provider = p)
        BY <3>2, <4>1 DEF SameLinkPending, Adding, NewLink, r
      <4>3. \A d \in Calls : Adding(d)' /\ call'[d].user = u /\ call'[d].provider = p => d = c
        BY <1>3, <4>2 DEF Adding
      <4> QED
        BY <2>1, <4>1, <4>3 DEF Clear
    <3>3. CASE ~(l = NewLink /\ u = r.user /\ p = r.provider)
      <4>1. \A d \in Calls : Adding(d)' /\ call'[d].user = u /\ call'[d].provider = p
                              => Adding(d) /\ call[d].user = u /\ call[d].provider = p
        BY <1>3, <1>4, <3>3 DEF Adding
      <4> QED
        BY <2>1, <3>1, <4>1 DEF Clear
    <3> QED
      BY <3>2, <3>3
  <2> QED
    BY <2>2 DEF UserInv
<1> QED
  BY <1>7, <1>8

LEMMA UserStores ==
    ASSUME TypeInv, ReplaceInv, UserInv, NEW c \in Calls, Stores(c)
    PROVE  ReplaceInv' /\ UserInv'
<1> DEFINE r == call[c]
<1>1. /\ r.pc = "saveLink" /\ r.user \in users /\ GoesOn(c, "sign")
      /\ r.user \in Ids /\ r.provider \in Providers
      /\ UNCHANGED <<users, usedIds, overlapped>>
  BY TypesApart DEF Stores, CallOK, LinkPcs
<1>2. PICK id \in LinkIds :
         /\ IF r.link = NewLink THEN id \notin usedLinks ELSE id = r.link
         /\ links' = {l \in links : l.id # id} \union
                      {[id |-> id, user |-> r.user, provider |-> r.provider, pid |-> r.pid]}
         /\ usedLinks' = usedLinks \union {id}
  BY DEF Stores
<1> DEFINE new == [id |-> id, user |-> r.user, provider |-> r.provider, pid |-> r.pid]
<1>3. /\ new.id = id /\ new.user = r.user /\ new.provider = r.provider
      /\ links' = {l \in links : l.id # id} \union {new}
  BY <1>2
<1>4. \A d \in Calls \ {c} : call'[d] = call[d]
  BY <1>1 DEF GoesOn, Continued, OthersKept
<1>5. ~Adding(c)' /\ ~Replacing(c)'
  BY <1>1 DEF GoesOn, Continued, Adding, Replacing
<1>6. \A l \in links : l.id \in usedLinks
  BY DEF TypeInv, LinksOK
<1> HIDE DEF r, new
(* The row written over, if any, was the same user's at the same provider.   *)
<1>7. \A l \in links : l.id = id => l.user = r.user /\ l.provider = r.provider
  <2>1. CASE r.link = NewLink
    BY <1>2, <1>6, <2>1
  <2>2. CASE r.link # NewLink
    BY <1>1, <1>2, <2>2 DEF ReplaceInv, Replacing, r
  <2> QED
    BY <2>1, <2>2
<1>8. ReplaceInv'
  <2> SUFFICES ASSUME NEW d \in Calls \ {c}, Replacing(d)
               PROVE  /\ call[d].link \in usedLinks' /\ call[d].user \in usedIds'
                      /\ \A l \in links' : l.id = call[d].link =>
                            l.user = call[d].user /\ l.provider = call[d].provider
                      /\ call[d].user \in users' => \E l \in links' : l.id = call[d].link
    BY <1>4, <1>5 DEF ReplaceInv, Replacing
  <2>1. /\ call[d].link \in usedLinks /\ call[d].user \in usedIds
        /\ \A l \in links : l.id = call[d].link =>
              l.user = call[d].user /\ l.provider = call[d].provider
        /\ call[d].user \in users => \E l \in links : l.id = call[d].link
    BY DEF ReplaceInv
  <2>2. CASE call[d].link # id
    BY <1>1, <1>2, <1>3, <2>1, <2>2
  <2>3. CASE call[d].link = id
    <3>1. r.link # NewLink
      BY <1>2, <2>1, <2>3
    <3>2. PICK l \in links : l.id = id
      BY <1>1, <1>2, <3>1 DEF ReplaceInv, Replacing, r
    <3>3. call[d].user = r.user /\ call[d].provider = r.provider
      BY <1>7, <2>1, <2>3, <3>2
    <3> QED
      BY <1>1, <1>2, <1>3, <2>1, <2>3, <3>3
  <2> QED
    BY <2>2, <2>3
<1>9. UserInv'
  <2> SUFFICES ASSUME NEW u \in Ids, NEW p \in Providers, Clear(u, p) PROVE Clear(u, p)'
    BY <1>1 DEF UserInv
  <2>1. \A d \in Calls : Adding(d)' => d # c /\ Adding(d) /\ call'[d] = call[d]
    BY <1>4, <1>5 DEF Adding
  <2>2. CASE u = r.user /\ p = r.provider
    <3>1. CASE r.link = NewLink
      <4>1. Adding(c) /\ LinksOfUser(u, p) = {}
        BY <1>1, <2>2, <3>1 DEF Adding, Clear, r
      <4>2. \A l \in LinksOfUser(u, p)' : l = new
        BY <1>3, <4>1 DEF LinksOfUser
      <4>3. \A d \in Calls : Adding(d) /\ call[d].user = u /\ call[d].provider = p => d = c
        BY <2>2, <4>1 DEF Clear, r
      <4> QED
        BY <2>1, <4>2, <4>3 DEF Clear
    <3>2. CASE r.link # NewLink
      <4>1. PICK k \in links : k.id = id
        BY <1>1, <1>2, <3>2 DEF ReplaceInv, Replacing, r
      <4>2. k \in LinksOfUser(u, p)
        BY <1>7, <2>2, <4>1 DEF LinksOfUser
      <4>3. \A l \in LinksOfUser(u, p)' : l = new
        BY <1>3, <4>1, <4>2 DEF LinksOfUser, Clear
      <4>4. \A d \in Calls : ~(Adding(d) /\ call[d].user = u /\ call[d].provider = p)
        BY <4>2 DEF Clear
      <4> QED
        BY <2>1, <4>3, <4>4 DEF Clear
    <3> QED
      BY <3>1, <3>2
  <2>3. CASE ~(u = r.user /\ p = r.provider)
    <3>1. LinksOfUser(u, p)' = LinksOfUser(u, p)
      BY <1>3, <1>7, <2>3 DEF LinksOfUser
    <3> QED
      BY <2>1, <3>1 DEF Clear
  <2> QED
    BY <2>2, <2>3
<1> QED
  BY <1>8, <1>9

LEMMA UserStep ==
    TypeInv /\ ReplaceInv /\ UserInv /\ [AccountsNext]_accountVars => ReplaceInv' /\ UserInv'
<1> SUFFICES ASSUME TypeInv, ReplaceInv, UserInv, [AccountsNext]_accountVars
             PROVE  ReplaceInv' /\ UserInv'
  OBVIOUS
<1>1. CASE UNCHANGED accountVars
  BY <1>1 DEF accountVars, ReplaceInv, UserInv, Clear, Replacing, Adding, LinksOfUser
<1> SUFFICES ASSUME NEW c \in Calls, Shapes(c) PROVE ReplaceInv' /\ UserInv'
  BY <1>1, NextHasShape
<1>2. CASE Begins(c)
  BY <1>2, UserFrame DEF Begins, Began, Overlaps, BeginsOther, BeginsLinked, BeginsUnlinked
<1>3. CASE Moves(c)
  BY <1>3, UserFrame DEF Moves, Ends, GoesOn, Continued
<1>4. CASE Inserts(c)
  <2>1. PICK u \in Ids \ usedIds :
          /\ users' = users \union {u} /\ usedIds' = usedIds \union {u}
          /\ OthersKept(c) /\ call'[c].pc # "saveLink"
    BY <1>4 DEF Inserts, Continued
  <2>2. UNCHANGED <<links, usedLinks, overlapped>>
    BY <1>4 DEF Inserts
  <2> QED
    BY <2>1, <2>2, UserFrame
<1>5. CASE AccountSave(c) \/ UpdateCommit(c)
  <2>1. Ends(c) /\ UNCHANGED <<users, usedIds, links, usedLinks, overlapped>>
    BY <1>5, EndCall DEF AccountSave, UpdateCommit
  <2> QED
    BY <2>1, UserFrame DEF Ends
<1>6. CASE DeleteRows(c)
  <2> DEFINE gone == call[c].ids \intersect users
  <2>1. /\ GoesOn(c, "forbidAll") /\ UNCHANGED <<usedIds, usedLinks, overlapped>>
        /\ users' = users \ gone /\ links' = {l \in links : l.user \notin gone}
    BY <1>6, GoOnCall DEF DeleteRows, Cascaded, Pcs
  <2> HIDE DEF gone
  <2> QED
    BY <2>1, UserFrame DEF GoesOn, Continued
<1> QED
  BY <1>2, <1>3, <1>4, <1>5, <1>6, UserFinds, UserStores DEF Shapes

-----------------------------------------------------------------------------
(* One user of an identity.  A login that found a link goes on as the user   *)
(* every link of the identity has; one that found none is the only one the   *)
(* identity has, and there is still no link when it saves.                   *)

Unlinked(c) ==
    call[c].pc \in {"byEmail", "create"} \/ (call[c].pc \in {"link", "saveLink"} /\ call[c].via # "link")
Linked(c) == call[c].pc \in {"link", "saveLink"} /\ call[c].via = "link"
For(c, p, i) == call[c].provider = p /\ call[c].pid = i

OneOwner(p, i) ==
    /\ \A l, k \in LinksOf(p, i) : l.user = k.user
    /\ \A c \in Calls : Linked(c) /\ For(c, p, i) =>
          /\ \A l \in LinksOf(p, i) : l.user = call[c].user
          /\ \A d \in Calls : Linked(d) /\ For(d, p, i) => call[d].user = call[c].user
    /\ \A c \in Calls : Unlinked(c) /\ For(c, p, i) =>
          /\ LinksOf(p, i) = {}
          /\ \A d \in Calls : (Linked(d) \/ Unlinked(d)) /\ For(d, p, i) => d = c
PidInv == \A p \in Providers, i \in Pids : <<p, i>> \notin overlapped.pid => OneOwner(p, i)

LEMMA PidInit == AccountsInit => PidInv
<1> SUFFICES ASSUME AccountsInit PROVE PidInv
  OBVIOUS
<1>1. \A c \in Calls : call[c].pc = "idle"
  BY NewCall DEF AccountsInit
<1>2. \A l, k \in links : l = k
  BY DEF AccountsInit
<1> QED
  BY <1>1, <1>2 DEF PidInv, OneOwner, Linked, Unlinked, LinksOf

(* A step that adds no link, and starts or redirects no login.               *)
LEMMA PidFrame ==
    ASSUME TypeInv, PidInv, NEW c \in Calls, OthersKept(c), links' \subseteq links,
           overlapped.pid \subseteq overlapped'.pid,
           Linked(c)' => /\ Linked(c) /\ call'[c].user = call[c].user
                         /\ call'[c].provider = call[c].provider /\ call'[c].pid = call[c].pid,
           Unlinked(c)' => /\ Unlinked(c)
                           /\ call'[c].provider = call[c].provider /\ call'[c].pid = call[c].pid
    PROVE  PidInv'
<1>1. \A d \in Calls : /\ Linked(d)' => Linked(d) /\ call'[d].user = call[d].user
                       /\ Unlinked(d)' => Unlinked(d)
                       /\ Linked(d)' \/ Unlinked(d)' => \A p, i : For(d, p, i)' => For(d, p, i)
  BY DEF OthersKept, Linked, Unlinked, For
<1>2. \A p, i : LinksOf(p, i)' \subseteq LinksOf(p, i)
  BY DEF LinksOf
<1>3. ASSUME NEW p \in Providers, NEW i \in Pids, OneOwner(p, i) PROVE OneOwner(p, i)'
  <2>1. \A l, k \in LinksOf(p, i)' : l.user = k.user
    BY <1>2, <1>3 DEF OneOwner
  <2>2. ASSUME NEW d \in Calls, Linked(d)', For(d, p, i)'
        PROVE  /\ \A l \in LinksOf(p, i)' : l.user = call'[d].user
               /\ \A e \in Calls : Linked(e)' /\ For(e, p, i)' => call'[e].user = call'[d].user
    <3>1. Linked(d) /\ For(d, p, i) /\ call'[d].user = call[d].user
      BY <1>1, <2>2
    <3>2. /\ \A l \in LinksOf(p, i) : l.user = call[d].user
          /\ \A e \in Calls : Linked(e) /\ For(e, p, i) => call[e].user = call[d].user
      BY <1>3, <3>1 DEF OneOwner
    <3>3. \A l \in LinksOf(p, i)' : l.user = call'[d].user
      BY <1>2, <3>1, <3>2
    <3>4. \A e \in Calls : Linked(e)' /\ For(e, p, i)' => call'[e].user = call'[d].user
      BY <1>1, <3>1, <3>2
    <3> QED
      BY <3>3, <3>4
  <2>3. ASSUME NEW d \in Calls, Unlinked(d)', For(d, p, i)'
        PROVE  /\ LinksOf(p, i)' = {}
               /\ \A e \in Calls : (Linked(e)' \/ Unlinked(e)') /\ For(e, p, i)' => e = d
    <3>1. Unlinked(d) /\ For(d, p, i)
      BY <1>1, <2>3
    <3>2. /\ LinksOf(p, i) = {}
          /\ \A e \in Calls : (Linked(e) \/ Unlinked(e)) /\ For(e, p, i) => e = d
      BY <1>3, <3>1 DEF OneOwner
    <3>3. LinksOf(p, i)' = {}
      BY <1>2, <3>2
    <3>4. \A e \in Calls : (Linked(e)' \/ Unlinked(e)') /\ For(e, p, i)' => e = d
      BY <1>1, <3>2
    <3> QED
      BY <3>3, <3>4
  <2> QED
    BY <2>1, <2>2, <2>3 DEF OneOwner
<1>4. ASSUME NEW p \in Providers, NEW i \in Pids, <<p, i>> \notin overlapped'.pid
      PROVE  OneOwner(p, i)'
  <2>1. OneOwner(p, i)
    BY <1>4 DEF PidInv
  <2> QED
    BY <1>3, <2>1
<1> QED
  BY <1>4 DEF PidInv

LEMMA PidBegins ==
    ASSUME TypeInv, PidInv, NEW c \in Calls, Begins(c)
    PROVE  PidInv'
<1> DEFINE r == call'[c]
<1>1. /\ OthersKept(c) /\ call[c].pc = "idle" /\ links' = links
      /\ overlapped.pid \subseteq overlapped'.pid
  BY DEF Begins, Began, Overlaps
<1>2. CASE BeginsOther(r)
  <2>1. ~Linked(c)' /\ ~Unlinked(c)'
    BY <1>2 DEF BeginsOther, Linked, Unlinked
  <2> QED
    BY <1>1, <2>1, PidFrame
<1>3. \A d \in Calls \ {c} : call'[d] = call[d]
  BY <1>1 DEF OthersKept
<1>4. \A p, i : LinksOf(p, i)' = LinksOf(p, i)
  BY <1>1 DEF LinksOf
<1>5. ASSUME BeginsLinked(r) \/ BeginsUnlinked(c, r),
             NEW p \in Providers, NEW i \in Pids, <<p, i>> \notin overlapped'.pid
      PROVE  OneOwner(p, i)'
  <2>1. OneOwner(p, i)
    BY <1>1, <1>5 DEF PidInv
  <2>2. CASE ~For(c, p, i)'
    <3>1. \A d \in Calls : For(d, p, i)' => d # c /\ call'[d] = call[d]
      BY <1>3, <2>2
    <3>2. /\ \A d \in Calls : Linked(d)' /\ For(d, p, i)' =>
                Linked(d) /\ For(d, p, i) /\ call'[d].user = call[d].user
          /\ \A d \in Calls : Unlinked(d)' /\ For(d, p, i)' => Unlinked(d) /\ For(d, p, i)
      BY <3>1 DEF Linked, Unlinked, For
    <3> QED
      BY <1>4, <2>1, <3>2 DEF OneOwner
  <2>3. CASE For(c, p, i)' /\ BeginsLinked(r)
    <3>1. PICK l \in LinksOf(p, i) : r.user = l.user
      BY <2>3 DEF BeginsLinked, For
    <3>2. \A d \in Calls : ~(Unlinked(d) /\ For(d, p, i))
      BY <2>1, <3>1 DEF OneOwner
    <3>3. Linked(c)' /\ ~Unlinked(c)'
      BY <2>3 DEF BeginsLinked, Linked, Unlinked
    <3>4. \A d \in Calls : ~(Unlinked(d)' /\ For(d, p, i)')
      BY <1>3, <3>2, <3>3 DEF Unlinked, For
    <3>5. \A d \in Calls : Linked(d)' /\ For(d, p, i)' => call'[d].user = l.user
      <4>1. \A d \in Calls \ {c} : Linked(d)' /\ For(d, p, i)' => Linked(d) /\ For(d, p, i)
        BY <1>3 DEF Linked, For
      <4>2. \A d \in Calls \ {c} : Linked(d)' /\ For(d, p, i)' => call[d].user = l.user
        BY <2>1, <3>1, <4>1 DEF OneOwner
      <4> QED
        BY <1>3, <3>1, <4>2
    <3>6. \A k \in LinksOf(p, i)' : k.user = l.user
      BY <1>4, <2>1, <3>1 DEF OneOwner
    <3> QED
      BY <3>4, <3>5, <3>6 DEF OneOwner
  <2>4. CASE For(c, p, i)' /\ BeginsUnlinked(c, r)
    <3>1. LinksOf(p, i) = {} /\ ~SavePending(c, p, i)
      BY <1>5, <2>4 DEF BeginsUnlinked, For
    <3>2. \A d \in Calls \ {c} : ~((Linked(d) \/ Unlinked(d)) /\ For(d, p, i))
      BY <3>1, TypesApart DEF SavePending, Linked, Unlinked, For, CallOK, LinkPcs
    <3>3. \A d \in Calls : (Linked(d)' \/ Unlinked(d)') /\ For(d, p, i)' => d = c
      BY <1>3, <3>2 DEF Linked, Unlinked, For
    <3> QED
      BY <1>4, <3>1, <3>3 DEF OneOwner
  <2> QED
    BY <1>5, <2>2, <2>3, <2>4
<1> QED
  BY <1>2, <1>5 DEF Begins, PidInv

LEMMA PidStores ==
    ASSUME TypeInv, PidInv, NEW c \in Calls, Stores(c)
    PROVE  PidInv'
<1> DEFINE r == call[c]
<1>1. r.pc = "saveLink" /\ GoesOn(c, "sign") /\ UNCHANGED overlapped
  BY DEF Stores
<1>2. PICK id \in LinkIds :
         links' = {l \in links : l.id # id} \union
                      {[id |-> id, user |-> r.user, provider |-> r.provider, pid |-> r.pid]}
  BY DEF Stores
<1> DEFINE new == [id |-> id, user |-> r.user, provider |-> r.provider, pid |-> r.pid]
<1>3. /\ new.user = r.user /\ new.provider = r.provider /\ new.pid = r.pid
      /\ links' \subseteq links \union {new}
  BY <1>2
<1>4. \A d \in Calls \ {c} : call'[d] = call[d]
  BY <1>1 DEF GoesOn, Continued, OthersKept
<1>5. ~Linked(c)' /\ ~Unlinked(c)'
  BY <1>1 DEF GoesOn, Continued, Linked, Unlinked
<1>6. \A d \in Calls : Linked(d)' \/ Unlinked(d)' => d # c /\ call'[d] = call[d]
  BY <1>4, <1>5
<1>7. Linked(c) \/ Unlinked(c)
  BY <1>1 DEF Linked, Unlinked
<1> HIDE DEF r, new
<1>8. ASSUME NEW p \in Providers, NEW i \in Pids, OneOwner(p, i) PROVE OneOwner(p, i)'
  <2>1. \A d \in Calls : /\ Linked(d)' /\ For(d, p, i)' =>
                               d # c /\ Linked(d) /\ For(d, p, i) /\ call'[d].user = call[d].user
                         /\ Unlinked(d)' /\ For(d, p, i)' => d # c /\ Unlinked(d) /\ For(d, p, i)
    BY <1>6 DEF Linked, Unlinked, For
  <2>2. CASE ~For(c, p, i)
    <3>1. LinksOf(p, i)' \subseteq LinksOf(p, i)
      BY <1>3, <2>2 DEF LinksOf, For, r
    <3> QED
      BY <1>8, <2>1, <3>1 DEF OneOwner
  <2>3. CASE For(c, p, i) /\ Linked(c)
    <3>1. \A l \in LinksOf(p, i)' : l.user = r.user
      BY <1>3, <1>8, <2>3 DEF LinksOf, OneOwner, r
    <3>2. \A d \in Calls : Linked(d)' /\ For(d, p, i)' => call'[d].user = r.user
      BY <1>8, <2>1, <2>3 DEF OneOwner, r
    <3>3. \A d \in Calls : ~(Unlinked(d)' /\ For(d, p, i)')
      BY <1>8, <2>1, <2>3 DEF OneOwner
    <3> QED
      BY <3>1, <3>2, <3>3 DEF OneOwner
  <2>4. CASE For(c, p, i) /\ Unlinked(c)
    <3>1. /\ LinksOf(p, i) = {}
          /\ \A d \in Calls : (Linked(d) \/ Unlinked(d)) /\ For(d, p, i) => d = c
      BY <1>8, <2>4 DEF OneOwner
    <3>2. \A l \in LinksOf(p, i)' : l = new
      BY <1>3, <3>1 DEF LinksOf
    <3>3. \A d \in Calls : ~((Linked(d)' \/ Unlinked(d)') /\ For(d, p, i)')
      BY <2>1, <3>1
    <3> QED
      BY <3>2, <3>3 DEF OneOwner
  <2> QED
    BY <1>7, <2>2, <2>3, <2>4
<1> QED
  BY <1>1, <1>8 DEF PidInv

LEMMA PidStep == TypeInv /\ PidInv /\ [AccountsNext]_accountVars => PidInv'
<1> SUFFICES ASSUME TypeInv, PidInv, [AccountsNext]_accountVars PROVE PidInv'
  OBVIOUS
<1>1. CASE UNCHANGED accountVars
  BY <1>1 DEF accountVars, PidInv, OneOwner, Linked, Unlinked, For, LinksOf
<1> SUFFICES ASSUME NEW c \in Calls, Shapes(c) PROVE PidInv'
  BY <1>1, NextHasShape
<1>2. CASE Moves(c)
  <2>1. links' = links /\ overlapped' = overlapped /\ OthersKept(c)
    BY <1>2 DEF Moves, Ends, GoesOn, Continued
  <2>2. ~Linked(c)'
    BY <1>2 DEF Moves, Ends, GoesOn, Continued, Linked
  <2>3. Unlinked(c)' => /\ Unlinked(c)
                        /\ call'[c].provider = call[c].provider /\ call'[c].pid = call[c].pid
    BY <1>2 DEF Moves, Ends, GoesOn, Continued, Unlinked
  <2> QED
    BY <2>1, <2>2, <2>3, PidFrame
<1>3. CASE Finds(c)
  <2>1. PICK l : Continued(c, "saveLink", call[c].user, call[c].via, l)
    BY <1>3 DEF Finds
  <2>2. call[c].pc = "link" /\ links' = links /\ overlapped'.pid = overlapped.pid
    BY <1>3 DEF Finds
  <2> QED
    BY <2>1, <2>2, PidFrame DEF Continued, Linked, Unlinked
<1>4. CASE Inserts(c)
  <2>1. links' = links /\ overlapped' = overlapped /\ OthersKept(c) /\ ~Linked(c)'
    BY <1>4 DEF Inserts, Continued, Linked
  <2>2. Unlinked(c)' => /\ Unlinked(c)
                        /\ call'[c].provider = call[c].provider /\ call'[c].pid = call[c].pid
    BY <1>4 DEF Inserts, Continued, Unlinked
  <2> QED
    BY <2>1, <2>2, PidFrame
<1>5. CASE AccountSave(c) \/ UpdateCommit(c)
  <2>1. Ends(c) /\ links' = links /\ overlapped' = overlapped
    BY <1>5, EndCall DEF AccountSave, UpdateCommit
  <2> QED
    BY <2>1, PidFrame DEF Ends, Linked, Unlinked
<1>6. CASE DeleteRows(c)
  <2>1. GoesOn(c, "forbidAll") /\ links' \subseteq links /\ overlapped' = overlapped
    BY <1>6, GoOnCall DEF DeleteRows, Cascaded, Pcs
  <2> QED
    BY <2>1, PidFrame DEF GoesOn, Continued, Linked, Unlinked
<1> QED
  BY <1>2, <1>3, <1>4, <1>5, <1>6, PidBegins, PidStores DEF Shapes

(* OneLinkUnlessRaced: a user has one link per provider and an identity one  *)
(* user, unless two of its logins overlapped and the second found nothing    *)
(* (auth.service.ts: loginWithOAuth, upsertOAuthProvider).                   *)
THEOREM OneLink == AccountsSpec => []OneLinkUnlessRaced
<1>1. TypeInv /\ UserInv /\ PidInv => OneLinkUnlessRaced
  <2> SUFFICES ASSUME TypeInv, UserInv, PidInv,
                      NEW l \in links, NEW k \in links, l # k, l.provider = k.provider
               PROVE  /\ l.user = k.user => <<l.user, l.provider>> \in overlapped.user
                      /\ l.pid = k.pid /\ l.user # k.user => <<l.provider, l.pid>> \in overlapped.pid
    BY DEF OneLinkUnlessRaced
  <2>1. l.user \in Ids /\ l.provider \in Providers /\ l.pid \in Pids
    BY DEF TypeInv, LinksOK, RowsOK
  <2>2. ASSUME l.user = k.user, <<l.user, l.provider>> \notin overlapped.user PROVE FALSE
    <3>1. l \in LinksOfUser(l.user, l.provider) /\ k \in LinksOfUser(l.user, l.provider)
      BY <2>2 DEF LinksOfUser
    <3>2. Clear(l.user, l.provider)
      BY <2>1, <2>2 DEF UserInv
    <3> QED
      BY <3>1, <3>2 DEF Clear
  <2>3. ASSUME l.pid = k.pid, l.user # k.user, <<l.provider, l.pid>> \notin overlapped.pid PROVE FALSE
    <3>1. l \in LinksOf(l.provider, l.pid) /\ k \in LinksOf(l.provider, l.pid)
      BY <2>3 DEF LinksOf
    <3>2. OneOwner(l.provider, l.pid)
      BY <2>1, <2>3 DEF PidInv
    <3>3. \A m, n \in LinksOf(l.provider, l.pid) : m.user = n.user
      BY <3>2 DEF OneOwner
    <3> QED
      BY <2>3, <3>1, <3>3
  <2> QED
    BY <2>2, <2>3
<1> QED
  BY <1>1, TypeInit, TypeStep, UserInit, UserStep, PidInit, PidStep, PTL DEF AccountsSpec

=============================================================================
