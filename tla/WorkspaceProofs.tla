---------------------------- MODULE WorkspaceProofs ----------------------------
(***************************************************************************)
(* What the side of the organization keeps for any number of requests,     *)
(* organizations, tasks, teams and deliveries: the parts that have no      *)
(* module of proofs of their own, and all of them side by side.            *)
(***************************************************************************)
EXTENDS MCWorkspace, OrgMembersProofs, DocumentSigningProofs

-----------------------------------------------------------------------------
(* Organizations and their trail.  An entry is written in the transaction of *)
(* what it tells, and what it does not tell does not depend on it: so the    *)
(* last entry of each kind is the state, whatever a request has read.        *)

OrgRow == [slug : Slug, domain : Subdomain \cup {NoSubdomain},
           status : Status, deleted : BOOLEAN]

\* An entry of the trail, and what each action tells.
EntryRow ==
  [org : 1..MaxOrg, action : Made \cup {"update", "delete", "assign", "remove"},
   person : Official \cup {NotAPerson}, to : Status \cup {"untold", "deleted", "removed"}]

EntriesTyped ==
  /\ trail \in Seq(EntryRow)
  /\ \A i \in DOMAIN trail :
       /\ trail[i].org \in DOMAIN organizations
       /\ trail[i].action = "delete" => trail[i].to = "deleted"

\* What a request in flight has read, by its kind.
DeskRow ==
  {Free}
  \cup [op : {"create"}, slug : Slug, status : Status]
  \cup [op : {"wizard"}, slug : Slug, domain : Subdomain \cup {NoSubdomain},
        person : Official, found : BOOLEAN, invite : BOOLEAN]
  \cup [op : {"update"}, org : DOMAIN organizations, status : Status, seen : Status]
  \cup [op : {"delete"}, org : DOMAIN organizations]
  \cup [op : {"assign", "revoke"}, org : DOMAIN organizations, person : Official]

\* Who was found with an account keeps a row, and who had a seat a row of it.
DesksSound ==
  \A r \in Clerk :
    /\ desks[r].op = "wizard" /\ desks[r].found => accounts[desks[r].person] # "none"
    /\ desks[r].op \in {"assign", "revoke"} => accounts[desks[r].person] # "none"

OrgsInv ==
  /\ AdminOrgsTypeOK
  /\ organizations \in Seq(OrgRow) /\ Len(organizations) <= MaxOrg
  /\ desks \in [Clerk -> DeskRow]
  /\ EntriesTyped
  /\ DesksSound
  /\ NamesApart
  /\ TrailReplays

LEMMA OrgsInitInv == AdminOrgsInit => OrgsInv
<1> SUFFICES ASSUME AdminOrgsInit PROVE OrgsInv
  OBVIOUS
<1>1. /\ organizations = <<>> /\ trail = <<>> /\ firstInvites = {}
      /\ accounts = [p \in Official |-> "none"]
      /\ seats = [s \in (1..MaxOrg) \X Official |-> "none"]
      /\ desks = [r \in Clerk |-> Free]
  BY DEF AdminOrgsInit
<1>2. AdminOrgsTypeOK
  BY <1>1 DEF AdminOrgsTypeOK, Free
<1>3. /\ organizations \in Seq(OrgRow) /\ Len(organizations) <= MaxOrg
      /\ desks \in [Clerk -> DeskRow]
  BY <1>1, AdminOrgsAssumption DEF DeskRow
<1>4. EntriesTyped /\ DesksSound /\ NamesApart
  BY <1>1 DEF EntriesTyped, DesksSound, Free, NamesApart
<1>5. TrailReplays
  <2>1. DOMAIN organizations = {} /\ DOMAIN trail = {}
    BY <1>1
  <2>2. \A o, p : SeatTold(o, p) = "none"
    BY <2>1 DEF SeatTold
  <2>3. InvitesTold = {}
    BY <2>1 DEF InvitesTold
  <2> QED
    BY <1>1, <2>1, <2>2, <2>3 DEF TrailReplays
<1> QED
  BY <1>2, <1>3, <1>4, <1>5 DEF OrgsInv

\* The last place of a list that has grown by one.
LEMMA LastPlace ==
  ASSUME NEW n \in Nat, NEW S \in SUBSET (1..n)
  PROVE  Max(S \cup {n + 1}) = n + 1
<1>1. S \cup {n + 1} \in SUBSET (0..(n + 1)) /\ S \cup {n + 1} # {}
  OBVIOUS
<1>2. \A y \in S : y <= n
  OBVIOUS
<1>3. /\ Max(S \cup {n + 1}) \in S \cup {n + 1}
      /\ \A y \in S \cup {n + 1} : y <= Max(S \cup {n + 1})
  BY <1>1, MaxIsMember
<1>4. PICK m : m = Max(S \cup {n + 1})
  OBVIOUS
<1>5. (m \in S \/ m = n + 1) /\ n + 1 <= m
  BY <1>3, <1>4
<1>6. m \in S => m <= n /\ m \in Nat
  BY <1>2
<1> QED
  BY <1>4, <1>5, <1>6

LEMMA SomePlace ==
  ASSUME NEW n \in Nat, NEW S \in SUBSET (1..n), S # {}
  PROVE  Max(S) \in S
<1>1. S \in SUBSET (0..n)
  OBVIOUS
<1> QED
  BY <1>1, MaxIsMember

\* What a trail tells that has grown by one entry.
LEMMA TrailGrown ==
  ASSUME trail \in Seq(EntryRow), NEW e \in EntryRow, trail' = Append(trail, e)
  PROVE  /\ trail' \in Seq(EntryRow)
         /\ DOMAIN trail' = DOMAIN trail \cup {Len(trail) + 1}
         /\ trail'[Len(trail) + 1] = e
         /\ \A i \in DOMAIN trail : trail'[i] = trail[i]
         /\ \A o, actions, default :
              LastTold(o, actions, default)' =
                IF e.org = o /\ e.action \in actions THEN e.to ELSE LastTold(o, actions, default)
         /\ \A o, p :
              SeatTold(o, p)' =
                IF e.org = o /\ e.person = p
                THEN IF e.action = "remove" THEN "removed" ELSE "active"
                ELSE SeatTold(o, p)
         /\ InvitesTold' = InvitesTold \cup
              (IF e.action = "wizard_invite" THEN {[org |-> e.org, person |-> e.person]} ELSE {})
<1>1. PICK n \in Nat : n = Len(trail)
  OBVIOUS
<1>2. /\ trail' \in Seq(EntryRow) /\ Len(trail') = n + 1 /\ DOMAIN trail = 1..n
      /\ trail'[n + 1] = e
      /\ \A i \in 1..n : trail'[i] = trail[i]
  BY <1>1
<1>3. DOMAIN trail' = (1..n) \cup {n + 1}
  BY <1>2
<1>4. ASSUME NEW o, NEW actions, NEW default
      PROVE  LastTold(o, actions, default)' =
               IF e.org = o /\ e.action \in actions THEN e.to ELSE LastTold(o, actions, default)
  <2>1. PICK S : S = {i \in DOMAIN trail : trail[i].org = o /\ trail[i].action \in actions}
    OBVIOUS
  <2>2. PICK T : T = {i \in DOMAIN trail' : trail'[i].org = o /\ trail'[i].action \in actions}
    OBVIOUS
  <2>3. LastTold(o, actions, default) = IF S = {} THEN default ELSE trail[Max(S)].to
    BY <2>1 DEF LastTold
  <2>4. LastTold(o, actions, default)' = IF T = {} THEN default ELSE trail'[Max(T)].to
    BY <2>2 DEF LastTold
  <2>5. S \in SUBSET (1..n)
    BY <1>2, <2>1
  <2>6. CASE e.org = o /\ e.action \in actions
    <3>1. T = S \cup {n + 1}
      BY <1>2, <1>3, <2>1, <2>2, <2>6
    <3> QED
      BY <1>2, <2>4, <2>5, <2>6, <3>1, LastPlace
  <2>7. CASE ~ (e.org = o /\ e.action \in actions)
    <3>1. T = S
      BY <1>2, <1>3, <2>1, <2>2, <2>7
    <3>2. S # {} => trail'[Max(S)] = trail[Max(S)]
      BY <1>2, <2>5, SomePlace
    <3> QED
      BY <2>3, <2>4, <2>7, <3>1, <3>2
  <2> QED
    BY <2>6, <2>7
<1>5. ASSUME NEW o, NEW p
      PROVE  SeatTold(o, p)' =
               IF e.org = o /\ e.person = p
               THEN IF e.action = "remove" THEN "removed" ELSE "active"
               ELSE SeatTold(o, p)
  <2>1. PICK S : S = {i \in DOMAIN trail : trail[i].org = o /\ trail[i].person = p}
    OBVIOUS
  <2>2. PICK T : T = {i \in DOMAIN trail' : trail'[i].org = o /\ trail'[i].person = p}
    OBVIOUS
  <2>3. SeatTold(o, p) = IF S = {} THEN "none"
                         ELSE IF trail[Max(S)].action = "remove" THEN "removed" ELSE "active"
    BY <2>1 DEF SeatTold
  <2>4. SeatTold(o, p)' = IF T = {} THEN "none"
                          ELSE IF trail'[Max(T)].action = "remove" THEN "removed" ELSE "active"
    BY <2>2 DEF SeatTold
  <2>5. S \in SUBSET (1..n)
    BY <1>2, <2>1
  <2>6. CASE e.org = o /\ e.person = p
    <3>1. T = S \cup {n + 1}
      BY <1>2, <1>3, <2>1, <2>2, <2>6
    <3> QED
      BY <1>2, <2>4, <2>5, <2>6, <3>1, LastPlace
  <2>7. CASE ~ (e.org = o /\ e.person = p)
    <3>1. T = S
      BY <1>2, <1>3, <2>1, <2>2, <2>7
    <3>2. S # {} => trail'[Max(S)] = trail[Max(S)]
      BY <1>2, <2>5, SomePlace
    <3> QED
      BY <2>3, <2>4, <2>7, <3>1, <3>2
  <2> QED
    BY <2>6, <2>7
<1>6. InvitesTold' = InvitesTold \cup
        (IF e.action = "wizard_invite" THEN {[org |-> e.org, person |-> e.person]} ELSE {})
  <2>1. \A x : x \in InvitesTold <=>
          \E i \in 1..n : trail[i].action = "wizard_invite"
                          /\ x = [org |-> trail[i].org, person |-> trail[i].person]
    BY <1>2 DEF InvitesTold
  <2>2. \A x : x \in InvitesTold' <=>
          \E i \in (1..n) \cup {n + 1} : trail'[i].action = "wizard_invite"
                          /\ x = [org |-> trail'[i].org, person |-> trail'[i].person]
    BY <1>3 DEF InvitesTold
  <2> QED
    BY <1>2, <2>1, <2>2
<1> QED
  BY <1>1, <1>2, <1>3, <1>4, <1>5, <1>6

\* The conjuncts of TrailReplays.
OrgsReplay ==
  \A o \in DOMAIN organizations :
    /\ LastTold(o, Made \cup {"update"}, "unmade") \in {organizations[o].status, "untold"}
    /\ organizations[o].deleted <=> LastTold(o, {"delete"}, "untold") = "deleted"

SeatsReplay == \A s \in DOMAIN seats : seats[s] = SeatTold(s[1], s[2])

\* An entry about an organization there is keeps the trail well-typed.
LEMMA EntryTyped ==
  ASSUME OrgsInv, NEW e \in EntryRow, trail' = Append(trail, e),
         DOMAIN organizations \subseteq DOMAIN organizations',
         e.org \in DOMAIN organizations', e.action = "delete" => e.to = "deleted"
  PROVE  EntriesTyped'
<1>1. /\ trail' \in Seq(EntryRow) /\ trail'[Len(trail) + 1] = e
      /\ DOMAIN trail' = DOMAIN trail \cup {Len(trail) + 1}
      /\ \A i \in DOMAIN trail : trail'[i] = trail[i]
  BY TrailGrown DEF OrgsInv, EntriesTyped
<1> QED
  BY <1>1 DEF OrgsInv, EntriesTyped

\* An entry without a person, and an entry about one with the seat it tells.
LEMMA SeatsStand ==
  ASSUME OrgsInv, NEW e \in EntryRow, trail' = Append(trail, e), e.person = NotAPerson,
         UNCHANGED seats
  PROVE  SeatsReplay'
<1>1. \A o, p : SeatTold(o, p)' =
        IF e.org = o /\ e.person = p
        THEN IF e.action = "remove" THEN "removed" ELSE "active"
        ELSE SeatTold(o, p)
  BY TrailGrown DEF OrgsInv, EntriesTyped
<1>2. \A s \in DOMAIN seats : s[2] \in Official /\ e.person # s[2]
  BY AdminOrgsAssumption DEF OrgsInv, AdminOrgsTypeOK
<1> QED
  BY <1>1, <1>2 DEF SeatsReplay, OrgsInv, TrailReplays

LEMMA SeatTaken ==
  ASSUME OrgsInv, NEW e \in EntryRow, trail' = Append(trail, e), e.person \in Official,
         seats' = [seats EXCEPT ![<<e.org, e.person>>] =
                     IF e.action = "remove" THEN "removed" ELSE "active"]
  PROVE  SeatsReplay'
<1>1. \A o, p : SeatTold(o, p)' =
        IF e.org = o /\ e.person = p
        THEN IF e.action = "remove" THEN "removed" ELSE "active"
        ELSE SeatTold(o, p)
  BY TrailGrown DEF OrgsInv, EntriesTyped
<1>2. DOMAIN seats' = DOMAIN seats /\ DOMAIN seats = (1..MaxOrg) \X Official
  BY DEF OrgsInv, AdminOrgsTypeOK
<1>3. ASSUME NEW s \in DOMAIN seats PROVE seats'[s] = SeatTold(s[1], s[2])'
  <2>1. s = <<s[1], s[2]>>
    BY <1>2
  <2>2. CASE s = <<e.org, e.person>>
    <3>1. s[1] = e.org /\ s[2] = e.person
      BY <2>2
    <3> QED
      BY <1>1, <1>2, <2>2, <3>1
  <2>3. CASE s # <<e.org, e.person>>
    <3>1. ~ (e.org = s[1] /\ e.person = s[2])
      BY <2>1, <2>3
    <3>2. seats'[s] = seats[s] /\ seats[s] = SeatTold(s[1], s[2])
      BY <2>3 DEF OrgsInv, TrailReplays
    <3> QED
      BY <1>1, <3>1, <3>2
  <2> QED
    BY <2>2, <2>3
<1> QED
  BY <1>2, <1>3 DEF SeatsReplay

\* An organization that is made has the names nobody has, and the trail starts
\* to tell of it.
LEMMA NewOrgFacts ==
  ASSUME OrgsInv, NEW slug \in Slug, NEW domain \in Subdomain \cup {NoSubdomain},
         NEW st \in Status, NewOrg(slug, domain, st),
         NEW e \in EntryRow, trail' = Append(trail, e),
         e.org = Len(organizations) + 1, e.action \in Made, e.to \in {st, "untold"}
  PROVE  /\ organizations' \in Seq(OrgRow) /\ Len(organizations') <= MaxOrg
         /\ DOMAIN organizations' = DOMAIN organizations \cup {e.org}
         /\ e.org \in 1..MaxOrg
         /\ NamesApart' /\ EntriesTyped' /\ OrgsReplay'
<1>1. PICK n \in Nat : n = Len(organizations)
  BY DEF OrgsInv
<1>2. PICK row : row = [slug |-> slug, domain |-> domain, status |-> st, deleted |-> FALSE]
  OBVIOUS
<1>3. /\ row \in OrgRow /\ row.slug = slug /\ row.domain = domain
      /\ row.status = st /\ row.deleted = FALSE
  BY <1>2 DEF OrgRow
<1>4. /\ n < MaxOrg /\ KeysFree(slug, domain) /\ organizations' = Append(organizations, row)
  BY <1>1, <1>2 DEF NewOrg
<1>5. /\ organizations' \in Seq(OrgRow) /\ Len(organizations') = n + 1
      /\ DOMAIN organizations = 1..n
      /\ organizations'[n + 1] = row
      /\ \A o \in 1..n : organizations'[o] = organizations[o]
  BY <1>1, <1>3, <1>4 DEF OrgsInv
<1>6. DOMAIN organizations' = (1..n) \cup {n + 1} /\ n + 1 <= MaxOrg /\ n + 1 \in 1..MaxOrg
  BY <1>4, <1>5, AdminOrgsAssumption
<1>7. NamesApart'
  <2>1. \A o \in 1..n : organizations[o].slug # slug
                        /\ (domain # NoSubdomain => organizations[o].domain # domain)
    BY <1>4, <1>5 DEF KeysFree
  <2>2. \A o, u \in 1..n : o # u =>
          /\ organizations[o].slug # organizations[u].slug
          /\ organizations[o].domain # NoSubdomain =>
               organizations[o].domain # organizations[u].domain
    BY <1>5 DEF OrgsInv, NamesApart
  <2> QED
    BY <1>3, <1>5, <1>6, <2>1, <2>2 DEF NamesApart
<1>8. EntriesTyped'
  <2>1. e.action # "delete"
    BY DEF Made
  <2> QED
    BY <1>1, <1>5, <1>6, <2>1, EntryTyped
<1>9. OrgsReplay'
  <2>1. \A o, actions, default :
          LastTold(o, actions, default)' =
            IF e.org = o /\ e.action \in actions THEN e.to ELSE LastTold(o, actions, default)
    BY TrailGrown DEF OrgsInv, EntriesTyped
  <2>2. ASSUME NEW o \in 1..n
        PROVE  /\ LastTold(o, Made \cup {"update"}, "unmade")' \in {organizations'[o].status, "untold"}
               /\ organizations'[o].deleted <=> LastTold(o, {"delete"}, "untold")' = "deleted"
    <3>1. e.org # o
      BY <1>1
    <3>2. /\ LastTold(o, Made \cup {"update"}, "unmade") \in {organizations[o].status, "untold"}
          /\ organizations[o].deleted <=> LastTold(o, {"delete"}, "untold") = "deleted"
      BY <1>5 DEF OrgsInv, TrailReplays
    <3> QED
      BY <1>5, <2>1, <3>1, <3>2
  <2>3. LastTold(n + 1, Made \cup {"update"}, "unmade")' \in {organizations'[n + 1].status, "untold"}
    BY <1>1, <1>3, <1>5, <2>1
  <2>4. LastTold(n + 1, {"delete"}, "untold")' = "untold"
    <3>1. \A i \in DOMAIN trail : trail[i].org # n + 1
      BY <1>5 DEF OrgsInv, EntriesTyped
    <3>2. LastTold(n + 1, {"delete"}, "untold") = "untold"
      BY <3>1 DEF LastTold
    <3>3. e.action \notin {"delete"}
      BY DEF Made
    <3> QED
      BY <2>1, <3>2, <3>3
  <2>5. organizations'[n + 1].deleted <=> LastTold(n + 1, {"delete"}, "untold")' = "deleted"
    BY <1>3, <1>5, <2>4
  <2> QED
    BY <1>6, <2>2, <2>3, <2>5 DEF OrgsReplay
<1> QED
  BY <1>1, <1>5, <1>6, <1>7, <1>8, <1>9

\* A request in flight, by its kind.
LEMMA DeskShape ==
  ASSUME OrgsInv, NEW r \in Clerk
  PROVE  /\ desks[r].op = "create" => desks[r].slug \in Slug /\ desks[r].status \in Status
         /\ desks[r].op = "wizard" =>
              /\ desks[r].slug \in Slug /\ desks[r].domain \in Subdomain \cup {NoSubdomain}
              /\ desks[r].person \in Official /\ desks[r].found \in BOOLEAN
              /\ desks[r].invite \in BOOLEAN
         /\ desks[r].op = "update" =>
              /\ desks[r].org \in DOMAIN organizations
              /\ desks[r].status \in Status /\ desks[r].seen \in Status
         /\ desks[r].op = "delete" => desks[r].org \in DOMAIN organizations
         /\ desks[r].op \in {"assign", "revoke"} =>
              desks[r].org \in DOMAIN organizations /\ desks[r].person \in Official
         /\ desks[r].op \in {"free", "create", "wizard", "update", "delete", "assign", "revoke"}
<1>1. desks[r] \in DeskRow
  BY DEF OrgsInv
<1> QED
  BY <1>1 DEF DeskRow, Free

\* What a request has read of rows and accounts stays true: neither goes.
LEMMA DesksStay ==
  ASSUME OrgsInv, desks' \in [Clerk -> DeskRow'],
         \A r \in Clerk : desks'[r] = desks[r] \/ desks'[r] = Free,
         \A p \in Official : accounts[p] # "none" => accounts'[p] # "none"
  PROVE  DesksSound'
<1>1. ASSUME NEW r \in Clerk, desks'[r] = desks[r]
      PROVE  /\ desks'[r].op = "wizard" /\ desks'[r].found => accounts'[desks'[r].person] # "none"
             /\ desks'[r].op \in {"assign", "revoke"} => accounts'[desks'[r].person] # "none"
  BY <1>1, DeskShape DEF OrgsInv, DesksSound
<1> QED
  BY <1>1 DEF DesksSound, Free

LEMMA RequestDone ==
  ASSUME OrgsInv, NEW r \in Clerk, Done(r),
         DOMAIN organizations \subseteq DOMAIN organizations',
         \A p \in Official : accounts[p] # "none" => accounts'[p] # "none"
  PROVE  desks' \in [Clerk -> DeskRow]' /\ DesksSound'
<1>1. DeskRow \subseteq DeskRow'
  BY DEF DeskRow
<1>2. desks' \in [Clerk -> DeskRow'] /\ \A s \in Clerk : desks'[s] = desks[s] \/ desks'[s] = Free
  <2>1. Free \in DeskRow'
    BY DEF DeskRow
  <2> QED
    BY <1>1, <2>1 DEF Done, OrgsInv
<1> QED
  BY <1>2, DesksStay

\* The rest of the invariant follows for whatever the trail does not tell of.
LEMMA OrgsInvFrom ==
  ASSUME organizations' \in Seq(OrgRow), Len(organizations') <= MaxOrg,
         accounts' \in [Official -> {"none", "live", "deleted"}],
         seats' \in [(1..MaxOrg) \X Official -> {"none", "active", "removed"}],
         \A s \in DOMAIN seats' :
           seats'[s] # "none" => s[1] \in DOMAIN organizations' /\ accounts'[s[2]] # "none",
         desks' \in [Clerk -> DeskRow]', DesksSound', EntriesTyped', NamesApart',
         OrgsReplay', SeatsReplay', firstInvites' = InvitesTold'
  PROVE  OrgsInv'
<1>1. \A o \in DOMAIN organizations' :
        organizations'[o] \in [slug : Slug, domain : Subdomain \cup {NoSubdomain},
                               status : Status, deleted : BOOLEAN]
  <2>1. \A o \in DOMAIN organizations' : organizations'[o] \in OrgRow
    OBVIOUS
  <2> QED
    BY <2>1 DEF OrgRow
<1>2. \A r \in Clerk :
        desks'[r].op \in {"free", "create", "wizard", "update", "delete", "assign", "revoke"}
  BY DEF DeskRow, Free
<1>3. AdminOrgsTypeOK'
  BY <1>1, <1>2 DEF AdminOrgsTypeOK
<1>4. TrailReplays'
  BY DEF TrailReplays, OrgsReplay, SeatsReplay
<1> QED
  BY <1>3, <1>4 DEF OrgsInv

LEMMA CreateOrgInv ==
  ASSUME OrgsInv, NEW r \in Clerk, CreateOrgCommit(r)
  PROVE  OrgsInv'
<1>1. PICK e : e = Entry(Len(organizations) + 1, "create", NotAPerson, "untold")
  OBVIOUS
<1>2. PICK slug \in Slug, st \in Status : slug = desks[r].slug /\ st = desks[r].status
  BY DeskShape DEF CreateOrgCommit
<1>3. /\ NewOrg(slug, NoSubdomain, st) /\ trail' = Append(trail, e) /\ Done(r)
      /\ UNCHANGED <<accounts, seats, firstInvites>>
  BY <1>1, <1>2 DEF CreateOrgCommit, Log
<1>4. /\ e \in EntryRow /\ e.org = Len(organizations) + 1 /\ e.action = "create"
      /\ e.action \in Made /\ e.to \in {st, "untold"} /\ e.person = NotAPerson
  <2>1. Len(organizations) + 1 \in 1..MaxOrg
    BY <1>3, AdminOrgsAssumption DEF NewOrg, OrgsInv
  <2> QED
    BY <1>1, <2>1 DEF Entry, EntryRow, Made, Status
<1>5. /\ organizations' \in Seq(OrgRow) /\ Len(organizations') <= MaxOrg
      /\ DOMAIN organizations \subseteq DOMAIN organizations'
      /\ NamesApart' /\ EntriesTyped' /\ OrgsReplay'
  BY <1>3, <1>4, NewOrgFacts
<1>6. SeatsReplay'
  BY <1>3, <1>4, SeatsStand
<1>7. firstInvites' = InvitesTold'
  <2>1. InvitesTold' = InvitesTold \cup
          (IF e.action = "wizard_invite" THEN {[org |-> e.org, person |-> e.person]} ELSE {})
    BY <1>3, <1>4, TrailGrown DEF OrgsInv, EntriesTyped
  <2> QED
    BY <1>3, <1>4, <2>1 DEF OrgsInv, TrailReplays
<1>8. desks' \in [Clerk -> DeskRow]' /\ DesksSound'
  BY <1>3, <1>5, RequestDone
<1> QED
  BY <1>3, <1>5, <1>6, <1>7, <1>8, OrgsInvFrom DEF OrgsInv, AdminOrgsTypeOK

LEMMA WizardInv ==
  ASSUME OrgsInv, NEW r \in Clerk, WizardCommit(r)
  PROVE  OrgsInv'
<1>1. PICK o : o = Len(organizations) + 1
  OBVIOUS
<1>2. desks[r].op = "wizard"
  BY DEF WizardCommit
<1>3. PICK slug \in Slug, domain \in Subdomain \cup {NoSubdomain}, p \in Official,
           found \in BOOLEAN, invite \in BOOLEAN :
        /\ slug = desks[r].slug /\ domain = desks[r].domain /\ p = desks[r].person
        /\ found = desks[r].found /\ invite = desks[r].invite
  BY <1>2, DeskShape
<1>4. PICK e : e = Entry(o, IF invite THEN "wizard_invite" ELSE "wizard", p, "active")
  OBVIOUS
<1>5. /\ NewOrg(slug, domain, "active") /\ trail' = Append(trail, e) /\ Done(r)
      /\ IF found THEN UNCHANGED accounts
         ELSE accounts[p] = "none" /\ accounts' = [accounts EXCEPT ![p] = "live"]
      /\ seats' = [seats EXCEPT ![<<o, p>>] = "active"]
      /\ firstInvites' = firstInvites \cup (IF invite THEN {[org |-> o, person |-> p]} ELSE {})
  BY <1>1, <1>3, <1>4 DEF WizardCommit, Log
<1>6. o \in 1..MaxOrg
  BY <1>1, <1>5, AdminOrgsAssumption DEF NewOrg, OrgsInv
<1>7. /\ e \in EntryRow /\ e.org = o /\ e.action = (IF invite THEN "wizard_invite" ELSE "wizard")
      /\ e.action \in Made /\ e.to \in {"active", "untold"} /\ e.person = p
  BY <1>4, <1>6 DEF Entry, EntryRow, Made, Status
<1>8. /\ organizations' \in Seq(OrgRow) /\ Len(organizations') <= MaxOrg
      /\ DOMAIN organizations' = DOMAIN organizations \cup {o}
      /\ NamesApart' /\ EntriesTyped' /\ OrgsReplay'
  <2>1. "active" \in Status
    BY DEF Status
  <2> QED
    BY <1>1, <1>5, <1>7, <2>1, NewOrgFacts
<1>9. SeatsReplay'
  BY <1>5, <1>7, SeatTaken
<1>10. firstInvites' = InvitesTold'
  <2>1. InvitesTold' = InvitesTold \cup
          (IF e.action = "wizard_invite" THEN {[org |-> e.org, person |-> e.person]} ELSE {})
    BY <1>5, <1>7, TrailGrown DEF OrgsInv, EntriesTyped
  <2> QED
    BY <1>5, <1>7, <2>1 DEF OrgsInv, TrailReplays
<1>11. /\ accounts' \in [Official -> {"none", "live", "deleted"}]
       /\ \A q \in Official : accounts[q] # "none" => accounts'[q] # "none"
       /\ accounts'[p] # "none"
  BY <1>2, <1>3, <1>5 DEF OrgsInv, AdminOrgsTypeOK, DesksSound
<1>12. desks' \in [Clerk -> DeskRow]' /\ DesksSound'
  BY <1>5, <1>8, <1>11, RequestDone
<1>13. /\ seats' \in [(1..MaxOrg) \X Official -> {"none", "active", "removed"}]
       /\ \A s \in DOMAIN seats' :
            seats'[s] # "none" => s[1] \in DOMAIN organizations' /\ accounts'[s[2]] # "none"
  <2>1. seats' \in [(1..MaxOrg) \X Official -> {"none", "active", "removed"}]
    BY <1>5 DEF OrgsInv, AdminOrgsTypeOK
  <2>2. ASSUME NEW s \in (1..MaxOrg) \X Official, seats'[s] # "none"
        PROVE  s[1] \in DOMAIN organizations' /\ accounts'[s[2]] # "none"
    <3>1. CASE s = <<o, p>>
      <4>1. s[1] = o /\ s[2] = p
        BY <3>1
      <4> QED
        BY <1>8, <1>11, <4>1
    <3>2. CASE s # <<o, p>>
      <4>1. seats[s] # "none" /\ s[2] \in Official
        BY <1>5, <2>2, <3>2 DEF OrgsInv, AdminOrgsTypeOK
      <4> QED
        BY <1>8, <1>11, <4>1 DEF OrgsInv, AdminOrgsTypeOK
    <3> QED
      BY <3>1, <3>2
  <2> QED
    BY <2>1, <2>2
<1> QED
  BY <1>8, <1>9, <1>10, <1>11, <1>12, <1>13, OrgsInvFrom

\* A row of an organization that there is, changed and told of.
LEMMA RowTold ==
  ASSUME OrgsInv, NEW o \in DOMAIN organizations, NEW row \in OrgRow,
         organizations' = [organizations EXCEPT ![o] = row],
         row.slug = organizations[o].slug, row.domain = organizations[o].domain,
         NEW e \in EntryRow, trail' = Append(trail, e), e.org = o,
         \/ /\ e.action = "update" /\ row.status = e.to
            /\ row.deleted = organizations[o].deleted
         \/ /\ e.action = "delete" /\ e.to = "deleted" /\ row.deleted
            /\ row.status = organizations[o].status
  PROVE  /\ organizations' \in Seq(OrgRow) /\ Len(organizations') <= MaxOrg
         /\ DOMAIN organizations' = DOMAIN organizations
         /\ NamesApart' /\ EntriesTyped' /\ OrgsReplay'
<1>1. /\ organizations' \in Seq(OrgRow) /\ Len(organizations') = Len(organizations)
      /\ DOMAIN organizations' = DOMAIN organizations
      /\ organizations'[o] = row
      /\ \A u \in DOMAIN organizations : u # o => organizations'[u] = organizations[u]
  BY DEF OrgsInv
<1>2. NamesApart'
  BY <1>1 DEF OrgsInv, NamesApart
<1>3. EntriesTyped'
  BY <1>1, EntryTyped
<1>4. \A u, actions, default :
        LastTold(u, actions, default)' =
          IF e.org = u /\ e.action \in actions THEN e.to ELSE LastTold(u, actions, default)
  BY TrailGrown DEF OrgsInv, EntriesTyped
<1>5. /\ e.action = "update" => e.action \in Made \cup {"update"} /\ e.action \notin {"delete"}
      /\ e.action = "delete" => e.action \notin Made \cup {"update"} /\ e.action \in {"delete"}
  BY DEF Made
<1>6. ASSUME NEW u \in DOMAIN organizations
      PROVE  /\ LastTold(u, Made \cup {"update"}, "unmade")' \in {organizations'[u].status, "untold"}
             /\ organizations'[u].deleted <=> LastTold(u, {"delete"}, "untold")' = "deleted"
  <2>1. /\ LastTold(u, Made \cup {"update"}, "unmade") \in {organizations[u].status, "untold"}
        /\ organizations[u].deleted <=> LastTold(u, {"delete"}, "untold") = "deleted"
    BY DEF OrgsInv, TrailReplays
  <2>2. CASE u # o
    BY <1>1, <1>4, <2>1, <2>2
  <2>3. CASE u = o /\ e.action = "update"
    <3>1. /\ LastTold(u, Made \cup {"update"}, "unmade")' = e.to
          /\ LastTold(u, {"delete"}, "untold")' = LastTold(u, {"delete"}, "untold")
      BY <1>4, <1>5, <2>3
    <3> QED
      BY <1>1, <1>5, <2>1, <2>3, <3>1
  <2>4. CASE u = o /\ e.action = "delete"
    <3>1. /\ LastTold(u, {"delete"}, "untold")' = e.to
          /\ LastTold(u, Made \cup {"update"}, "unmade")' = LastTold(u, Made \cup {"update"}, "unmade")
      BY <1>4, <1>5, <2>4
    <3> QED
      BY <1>1, <1>5, <2>1, <2>4, <3>1
  <2> QED
    BY <2>2, <2>3, <2>4
<1>7. OrgsReplay'
  BY <1>1, <1>6 DEF OrgsReplay
<1> QED
  BY <1>1, <1>2, <1>3, <1>7 DEF OrgsInv

LEMMA SameTold ==
  ASSUME trail' = trail
  PROVE  /\ \A o, actions, default :
              LastTold(o, actions, default)' = LastTold(o, actions, default)
         /\ \A o, p : SeatTold(o, p)' = SeatTold(o, p)
         /\ InvitesTold' = InvitesTold
<1>1. ASSUME NEW o, NEW actions, NEW default
      PROVE  LastTold(o, actions, default)' = LastTold(o, actions, default)
  BY DEF LastTold
<1>2. ASSUME NEW o, NEW p PROVE SeatTold(o, p)' = SeatTold(o, p)
  BY DEF SeatTold
<1>3. InvitesTold' = InvitesTold
  BY DEF InvitesTold
<1> QED
  BY <1>1, <1>2, <1>3

\* A step that tells nothing: a read, an undone request, accounts that come and go.
LEMMA NothingTold ==
  ASSUME OrgsInv, UNCHANGED <<organizations, seats, firstInvites, trail>>,
         accounts' \in [Official -> {"none", "live", "deleted"}],
         \A p \in Official : accounts[p] # "none" => accounts'[p] # "none",
         desks' \in [Clerk -> DeskRow]', DesksSound'
  PROVE  OrgsInv'
<1>1. EntriesTyped' /\ NamesApart'
  BY DEF OrgsInv, EntriesTyped, NamesApart
<1>2. OrgsReplay'
  <2>1. \A u : /\ LastTold(u, Made \cup {"update"}, "unmade")'
                    = LastTold(u, Made \cup {"update"}, "unmade")
               /\ LastTold(u, {"delete"}, "untold")' = LastTold(u, {"delete"}, "untold")
    BY SameTold
  <2> QED
    BY <2>1 DEF OrgsInv, TrailReplays, OrgsReplay
<1>3. SeatsReplay'
  BY SameTold DEF OrgsInv, TrailReplays, SeatsReplay
<1>4. firstInvites' = InvitesTold'
  BY SameTold DEF OrgsInv, TrailReplays
<1>5. \A s \in DOMAIN seats' :
        seats'[s] # "none" => s[1] \in DOMAIN organizations' /\ accounts'[s[2]] # "none"
  BY DEF OrgsInv, AdminOrgsTypeOK
<1> QED
  BY <1>1, <1>2, <1>3, <1>4, <1>5, OrgsInvFrom DEF OrgsInv, AdminOrgsTypeOK

LEMMA UpdateOrgInv ==
  ASSUME OrgsInv, NEW r \in Clerk, UpdateOrgCommit(r)
  PROVE  OrgsInv'
<1>1. desks[r].op = "update"
  BY DEF UpdateOrgCommit
<1>2. PICK o \in DOMAIN organizations, st \in Status, seen \in Status :
        o = desks[r].org /\ st = desks[r].status /\ seen = desks[r].seen
  BY <1>1, DeskShape
<1>3. PICK e : e = Entry(o, "update", NotAPerson, st)
  OBVIOUS
<1>4. /\ IF st = seen THEN UNCHANGED <<organizations, trail>>
         ELSE /\ organizations' = [organizations EXCEPT ![o].status = st]
              /\ trail' = Append(trail, e)
      /\ Done(r) /\ UNCHANGED <<accounts, seats, firstInvites>>
  BY <1>2, <1>3 DEF UpdateOrgCommit, Log, Told
<1>5. CASE st = seen
  <2>1. UNCHANGED <<organizations, trail, accounts, seats, firstInvites>> /\ Done(r)
    BY <1>4, <1>5
  <2>2. desks' \in [Clerk -> DeskRow]' /\ DesksSound'
    BY <2>1, RequestDone
  <2> QED
    BY <2>1, <2>2, NothingTold DEF OrgsInv, AdminOrgsTypeOK
<1>6. CASE st # seen
  <2>1. /\ organizations' = [organizations EXCEPT ![o].status = st]
        /\ trail' = Append(trail, e) /\ Done(r)
        /\ UNCHANGED <<accounts, seats, firstInvites>>
    BY <1>4, <1>6
  <2>2. PICK row : row = [organizations[o] EXCEPT !.status = st]
    OBVIOUS
  <2>3. /\ row \in OrgRow /\ row.status = st
        /\ row.slug = organizations[o].slug /\ row.domain = organizations[o].domain
        /\ row.deleted = organizations[o].deleted
    <3>1. organizations[o] \in OrgRow
      BY DEF OrgsInv
    <3> QED
      BY <2>2, <3>1 DEF OrgRow
  <2>4. organizations' = [organizations EXCEPT ![o] = row]
    BY <2>1, <2>2
  <2>5. /\ e \in EntryRow /\ e.org = o /\ e.action = "update" /\ e.person = NotAPerson /\ e.to = st
    <3>1. o \in 1..MaxOrg
      BY AdminOrgsAssumption DEF OrgsInv
    <3> QED
      BY <1>3, <3>1 DEF Entry, EntryRow, Status
  <2>6. /\ organizations' \in Seq(OrgRow) /\ Len(organizations') <= MaxOrg
        /\ DOMAIN organizations' = DOMAIN organizations
        /\ NamesApart' /\ EntriesTyped' /\ OrgsReplay'
    <3>1. trail' = Append(trail, e) /\ row.status = e.to
      BY <2>1, <2>3, <2>5
    <3> QED
      BY <2>3, <2>4, <2>5, <3>1, RowTold
  <2>7. SeatsReplay'
    BY <2>1, <2>5, SeatsStand
  <2>8. InvitesTold' = InvitesTold
    BY <2>1, <2>5, TrailGrown DEF OrgsInv, EntriesTyped
  <2>9. desks' \in [Clerk -> DeskRow]' /\ DesksSound'
    BY <2>1, <2>6, RequestDone
  <2>10. firstInvites' = InvitesTold'
    BY <2>1, <2>8 DEF OrgsInv, TrailReplays
  <2> QED
    BY <2>1, <2>6, <2>7, <2>9, <2>10, OrgsInvFrom DEF OrgsInv, AdminOrgsTypeOK
<1> QED
  BY <1>5, <1>6

LEMMA DeleteOrgInv ==
  ASSUME OrgsInv, NEW r \in Clerk, DeleteOrgCommit(r)
  PROVE  OrgsInv'
<1>1. PICK o \in DOMAIN organizations : o = desks[r].org
  BY DeskShape DEF DeleteOrgCommit
<1>2. PICK e : e = Entry(o, "delete", NotAPerson, "deleted")
  OBVIOUS
<1>3. /\ organizations' = [organizations EXCEPT ![o].deleted = TRUE]
      /\ trail' = Append(trail, e) /\ Done(r)
      /\ UNCHANGED <<accounts, seats, firstInvites>>
  BY <1>1, <1>2 DEF DeleteOrgCommit, Log
<1>4. PICK row : row = [organizations[o] EXCEPT !.deleted = TRUE]
  OBVIOUS
<1>5. /\ row \in OrgRow /\ row.deleted
      /\ row.slug = organizations[o].slug /\ row.domain = organizations[o].domain
      /\ row.status = organizations[o].status
  <2>1. organizations[o] \in OrgRow
    BY DEF OrgsInv
  <2> QED
    BY <1>4, <2>1 DEF OrgRow
<1>6. organizations' = [organizations EXCEPT ![o] = row]
  BY <1>3, <1>4
<1>7. /\ e \in EntryRow /\ e.org = o /\ e.action = "delete" /\ e.person = NotAPerson
      /\ e.to = "deleted"
  <2>1. o \in 1..MaxOrg
    BY AdminOrgsAssumption DEF OrgsInv
  <2> QED
    BY <1>2, <2>1 DEF Entry, EntryRow
<1>8. /\ organizations' \in Seq(OrgRow) /\ Len(organizations') <= MaxOrg
      /\ DOMAIN organizations' = DOMAIN organizations
      /\ NamesApart' /\ EntriesTyped' /\ OrgsReplay'
  BY <1>3, <1>5, <1>6, <1>7, RowTold
<1>9. SeatsReplay'
  BY <1>3, <1>7, SeatsStand
<1>10. InvitesTold' = InvitesTold
  BY ZenonT(60), <1>3, <1>7, TrailGrown DEF OrgsInv, EntriesTyped
<1>11. desks' \in [Clerk -> DeskRow]' /\ DesksSound'
  BY <1>3, <1>8, RequestDone
<1>12. firstInvites' = InvitesTold'
  BY <1>3, <1>10 DEF OrgsInv, TrailReplays
<1> QED
  BY <1>3, <1>8, <1>9, <1>11, <1>12, OrgsInvFrom DEF OrgsInv, AdminOrgsTypeOK

\* A seat is given or taken, and told of.
LEMMA SeatInv ==
  ASSUME OrgsInv, NEW r \in Clerk, AssignAdminCommit(r) \/ RevokeAdminCommit(r)
  PROVE  OrgsInv'
<1>1. desks[r].op \in {"assign", "revoke"}
  BY DEF AssignAdminCommit, RevokeAdminCommit
<1>2. PICK o \in DOMAIN organizations, p \in Official : o = desks[r].org /\ p = desks[r].person
  BY <1>1, DeskShape
<1>3. PICK e : e = IF desks[r].op = "assign" THEN Entry(o, "assign", p, "active")
                   ELSE Entry(o, "remove", p, "removed")
  OBVIOUS
<1>4. /\ seats' = [seats EXCEPT ![<<o, p>>] =
                     IF desks[r].op = "assign" THEN "active" ELSE "removed"]
      /\ trail' = Append(trail, e) /\ Done(r)
      /\ UNCHANGED <<organizations, accounts, firstInvites>>
  BY <1>2, <1>3 DEF AssignAdminCommit, RevokeAdminCommit, Log
<1>5. /\ e \in EntryRow /\ e.org = o /\ e.person = p
      /\ e.action = (IF desks[r].op = "assign" THEN "assign" ELSE "remove")
  <2>1. o \in 1..MaxOrg
    BY AdminOrgsAssumption DEF OrgsInv
  <2> QED
    BY <1>3, <2>1 DEF Entry, EntryRow, Status
<1>6. /\ EntriesTyped'
      /\ e.action \notin Made \cup {"update"} /\ e.action \notin {"delete"}
      /\ e.action # "wizard_invite"
  <2>1. /\ e.action \notin Made \cup {"update"} /\ e.action \notin {"delete"}
        /\ e.action # "wizard_invite"
    BY <1>5 DEF Made
  <2> QED
    BY <1>4, <1>5, <2>1, EntryTyped
<1>7. SeatsReplay'
  <2>1. seats' = [seats EXCEPT ![<<e.org, e.person>>] =
                    IF e.action = "remove" THEN "removed" ELSE "active"]
    BY <1>4, <1>5
  <2> QED
    BY <1>4, <1>5, <2>1, SeatTaken
<1>8. /\ InvitesTold' = InvitesTold
      /\ \A u, actions, default :
           LastTold(u, actions, default)' =
             IF e.org = u /\ e.action \in actions THEN e.to ELSE LastTold(u, actions, default)
  <2>1. /\ InvitesTold' = InvitesTold \cup
             (IF e.action = "wizard_invite" THEN {[org |-> e.org, person |-> e.person]} ELSE {})
        /\ \A u, actions, default :
             LastTold(u, actions, default)' =
               IF e.org = u /\ e.action \in actions THEN e.to ELSE LastTold(u, actions, default)
    BY <1>4, <1>5, TrailGrown DEF OrgsInv, EntriesTyped
  <2> QED
    BY <1>6, <2>1
<1>9. OrgsReplay'
  <2>1. \A u : /\ LastTold(u, Made \cup {"update"}, "unmade")'
                    = LastTold(u, Made \cup {"update"}, "unmade")
               /\ LastTold(u, {"delete"}, "untold")' = LastTold(u, {"delete"}, "untold")
    BY <1>6, <1>8
  <2> QED
    BY <1>4, <2>1 DEF OrgsInv, TrailReplays, OrgsReplay
<1>10. desks' \in [Clerk -> DeskRow]' /\ DesksSound'
  BY <1>4, RequestDone
<1>11. /\ seats' \in [(1..MaxOrg) \X Official -> {"none", "active", "removed"}]
       /\ \A s \in DOMAIN seats' :
            seats'[s] # "none" => s[1] \in DOMAIN organizations' /\ accounts'[s[2]] # "none"
  <2>1. seats' \in [(1..MaxOrg) \X Official -> {"none", "active", "removed"}]
    BY <1>4 DEF OrgsInv, AdminOrgsTypeOK
  <2>2. accounts[p] # "none"
    BY <1>1, <1>2 DEF OrgsInv, DesksSound
  <2>3. ASSUME NEW s \in (1..MaxOrg) \X Official, seats'[s] # "none"
        PROVE  s[1] \in DOMAIN organizations /\ accounts[s[2]] # "none"
    <3>1. CASE s = <<o, p>>
      <4>1. s[1] = o /\ s[2] = p
        BY <3>1
      <4> QED
        BY <2>2, <4>1
    <3>2. CASE s # <<o, p>>
      BY <1>4, <2>3, <3>2 DEF OrgsInv, AdminOrgsTypeOK
    <3> QED
      BY <3>1, <3>2
  <2> QED
    BY <1>4, <2>1, <2>3
<1>12. firstInvites' = InvitesTold' /\ NamesApart'
  BY <1>4, <1>8 DEF OrgsInv, TrailReplays, NamesApart
<1> QED
  BY <1>4, <1>6, <1>7, <1>9, <1>10, <1>11, <1>12, OrgsInvFrom DEF OrgsInv, AdminOrgsTypeOK

\* A request that reads, and one that is undone.
LEMMA TakeUpInv ==
  ASSUME OrgsInv, NEW r \in Clerk, NEW q \in DeskRow, desks' = [desks EXCEPT ![r] = q],
         UNCHANGED <<organizations, accounts, seats, firstInvites, trail>>,
         q.op = "wizard" /\ q.found => accounts[q.person] # "none",
         q.op \in {"assign", "revoke"} => accounts[q.person] # "none"
  PROVE  OrgsInv'
<1>1. desks' \in [Clerk -> DeskRow]'
  BY DEF OrgsInv, DeskRow
<1>2. DesksSound'
  BY DEF OrgsInv, DesksSound
<1> QED
  BY <1>1, <1>2, NothingTold DEF OrgsInv, AdminOrgsTypeOK

LEMMA OrgReadsInv ==
  ASSUME OrgsInv, NEW r \in Clerk,
         \/ \E slug \in Slug :
              \/ \E st \in Status : CreateOrgRead(r, slug, st)
              \/ \E d \in Subdomain \cup {NoSubdomain}, p \in Official, i \in BOOLEAN :
                   WizardRead(r, slug, d, p, i)
         \/ \E o \in DOMAIN organizations :
              \/ DeleteOrgRead(r, o)
              \/ \E st \in Status : UpdateOrgRead(r, o, st)
              \/ \E p \in Official : AssignAdminRead(r, o, p) \/ RevokeAdminRead(r, o, p)
         \/ Reject(r)
  PROVE  OrgsInv'
<1>1. ASSUME NEW slug \in Slug, NEW st \in Status, CreateOrgRead(r, slug, st) PROVE OrgsInv'
  <2>1. PICK q : q = [op |-> "create", slug |-> slug, status |-> st]
    OBVIOUS
  <2>2. q \in DeskRow /\ q.op = "create"
    BY <2>1 DEF DeskRow
  <2> QED
    BY <1>1, <2>1, <2>2, TakeUpInv DEF CreateOrgRead, TakeUp
<1>2. ASSUME NEW slug \in Slug, NEW d \in Subdomain \cup {NoSubdomain}, NEW p \in Official,
             NEW i \in BOOLEAN, WizardRead(r, slug, d, p, i)
      PROVE  OrgsInv'
  <2>1. PICK f \in BOOLEAN : f = (accounts[p] = "live")
    OBVIOUS
  <2>2. PICK q : q = [op |-> "wizard", slug |-> slug, domain |-> d, person |-> p,
                      found |-> f, invite |-> i]
    OBVIOUS
  <2>3. q \in DeskRow /\ q.op = "wizard" /\ q.found = f /\ q.person = p
    BY <2>2 DEF DeskRow
  <2>4. desks' = [desks EXCEPT ![r] = q]
        /\ UNCHANGED <<organizations, accounts, seats, firstInvites, trail>>
    BY <1>2, <2>1, <2>2 DEF WizardRead, TakeUp
  <2> QED
    BY <2>1, <2>3, <2>4, TakeUpInv
<1>3. ASSUME NEW o \in DOMAIN organizations, DeleteOrgRead(r, o) PROVE OrgsInv'
  <2>1. PICK q : q = [op |-> "delete", org |-> o]
    OBVIOUS
  <2>2. q \in DeskRow /\ q.op = "delete"
    BY <2>1 DEF DeskRow
  <2> QED
    BY <1>3, <2>1, <2>2, TakeUpInv DEF DeleteOrgRead, TakeUp
<1>4. ASSUME NEW o \in DOMAIN organizations, NEW st \in Status, UpdateOrgRead(r, o, st)
      PROVE  OrgsInv'
  <2>1. PICK q : q = [op |-> "update", org |-> o, status |-> st, seen |-> organizations[o].status]
    OBVIOUS
  <2>2. organizations[o].status \in Status
    <3>1. organizations[o] \in OrgRow
      BY DEF OrgsInv
    <3> QED
      BY <3>1 DEF OrgRow
  <2>3. q \in DeskRow /\ q.op = "update"
    BY <2>1, <2>2 DEF DeskRow
  <2> QED
    BY <1>4, <2>1, <2>3, TakeUpInv DEF UpdateOrgRead, TakeUp
<1>5. ASSUME NEW o \in DOMAIN organizations, NEW p \in Official,
             AssignAdminRead(r, o, p) \/ RevokeAdminRead(r, o, p)
      PROVE  OrgsInv'
  <2>1. PICK op \in {"assign", "revoke"} :
          /\ desks' = [desks EXCEPT ![r] = [op |-> op, org |-> o, person |-> p]]
          /\ UNCHANGED <<organizations, accounts, seats, firstInvites, trail>>
    BY <1>5 DEF AssignAdminRead, RevokeAdminRead, TakeUp
  <2>2. PICK q : q = [op |-> op, org |-> o, person |-> p]
    OBVIOUS
  <2>3. q \in DeskRow /\ q.op \in {"assign", "revoke"} /\ q.person = p
    BY <2>2 DEF DeskRow
  <2>4. accounts[p] # "none"
    <3>1. CASE AssignAdminRead(r, o, p)
      BY <3>1 DEF AssignAdminRead
    <3>2. CASE RevokeAdminRead(r, o, p)
      <4>1. PICK s : s = <<o, p>>
        OBVIOUS
      <4>2. s \in DOMAIN seats /\ seats[s] = "active" /\ s[2] = p
        <5>1. o \in 1..MaxOrg
          BY AdminOrgsAssumption DEF OrgsInv
        <5> QED
          BY <3>2, <4>1, <5>1 DEF RevokeAdminRead, OrgsInv, AdminOrgsTypeOK
      <4> QED
        BY <4>2 DEF OrgsInv, AdminOrgsTypeOK
    <3> QED
      BY <1>5, <3>1, <3>2
  <2> QED
    BY <2>1, <2>2, <2>3, <2>4, TakeUpInv
<1>6. CASE Reject(r)
  <2>1. Free \in DeskRow /\ Free.op = "free"
    BY DEF DeskRow, Free
  <2> QED
    BY <1>6, <2>1, TakeUpInv DEF Reject, Done
<1> QED
  BY <1>1, <1>2, <1>3, <1>4, <1>5, <1>6

LEMMA OrgsNextInv ==
  ASSUME OrgsInv, [AdminOrgsNext]_adminOrgVars
  PROVE  OrgsInv'
<1>1. ASSUME NEW p \in Official, RegisterAccount(p) \/ DeleteAccount(p) PROVE OrgsInv'
  <2>1. /\ UNCHANGED <<organizations, seats, firstInvites, trail, desks>>
        /\ accounts' \in [Official -> {"none", "live", "deleted"}]
        /\ \A q \in Official : accounts[q] # "none" => accounts'[q] # "none"
    BY <1>1 DEF RegisterAccount, DeleteAccount, OrgsInv, AdminOrgsTypeOK
  <2>2. desks' \in [Clerk -> DeskRow]'
    BY <2>1 DEF OrgsInv, DeskRow
  <2>3. DesksSound'
    <3>1. desks' \in [Clerk -> DeskRow']
      BY <2>2
    <3> QED
      BY <2>1, <3>1, DesksStay
  <2> QED
    BY <2>1, <2>2, <2>3, NothingTold
<1>2. CASE UNCHANGED adminOrgVars
  <2>1. UNCHANGED <<organizations, accounts, seats, firstInvites, trail, desks>>
    BY <1>2 DEF adminOrgVars
  <2>2. desks' \in [Clerk -> DeskRow]' /\ DesksSound'
    BY <2>1 DEF OrgsInv, DeskRow, DesksSound
  <2> QED
    BY <2>1, <2>2, NothingTold DEF OrgsInv, AdminOrgsTypeOK
<1>3. CASE MakingNext
  BY <1>3, OrgReadsInv, CreateOrgInv, WizardInv, DeleteOrgInv DEF MakingNext
<1>4. CASE ManagingNext
  BY <1>4, OrgReadsInv, UpdateOrgInv, SeatInv DEF ManagingNext
<1> QED
  BY <1>1, <1>2, <1>3, <1>4 DEF AdminOrgsNext, AccountsNext

-----------------------------------------------------------------------------
(* The structure.  What is referred to exists, and a manager is pinned only *)
(* to what the role has: then each page's way of narrowing its query finds  *)
(* teams that the manager's list has, by the one path or by the other.      *)

StructureInv ==
  /\ regions \subseteq Region
  /\ LiveBranches \subseteq Branch
  /\ branches \in [LiveBranches -> regions \cup {Nil}]
  /\ teams \in [LiveTeams -> [program : Program \cup {Nil}, region : regions \cup {Nil},
                              branch : LiveBranches \cup {Nil}]]
  /\ scope \in [Actors -> [program : Program \cup {Nil}, region : regions \cup {Nil},
                           branch : LiveBranches \cup {Nil}]]
  /\ scope["region_manager"].branch = Nil
  /\ scope["branch_manager"].program = Nil

LEMMA StructureTyped == StructureInv => OrgStructureTypeOK
BY DEF StructureInv, OrgStructureTypeOK, LiveTeams, LiveBranches

LEMMA StructureInitInv == OrgStructureInit => StructureInv
<1> SUFFICES ASSUME OrgStructureInit PROVE StructureInv
  OBVIOUS
<1>1. regions = Region /\ LiveBranches = {} /\ LiveTeams = {}
  BY DEF OrgStructureInit, LiveBranches, LiveTeams
<1>2. branches \in [{} -> regions \cup {Nil}]
  BY <1>1 DEF OrgStructureInit, LiveBranches
<1>3. teams \in [LiveTeams -> [program : Program \cup {Nil}, region : regions \cup {Nil},
                               branch : LiveBranches \cup {Nil}]]
  BY <1>1 DEF OrgStructureInit, LiveTeams
<1>4. PICK p \in Program \cup {Nil}, q \in Program \cup {Nil}, g \in Region :
        scope = [a \in Actors |->
         CASE a = "program_manager" -> [program |-> p, region |-> Nil, branch |-> Nil]
           [] a = "region_manager"  -> [program |-> q, region |-> g, branch |-> Nil]
           [] OTHER                 -> [program |-> Nil, region |-> Nil, branch |-> Nil]]
  BY DEF OrgStructureInit
<1>5. /\ scope \in [Actors -> [program : Program \cup {Nil}, region : regions \cup {Nil},
                               branch : LiveBranches \cup {Nil}]]
      /\ scope["region_manager"].branch = Nil
      /\ scope["branch_manager"].program = Nil
  BY <1>1, <1>4, OrgStructureAssumption DEF Actors, Managers, Admin
<1> QED
  BY <1>1, <1>2, <1>3, <1>5 DEF StructureInv

\* What a team is given.
TeamRow == [program : Program \cup {Nil}, region : regions \cup {Nil},
            branch : LiveBranches \cup {Nil}]

LEMMA TeamFields ==
  ASSUME StructureInv, NEW a \in Actors, NEW p \in Program \cup {Nil},
         NEW g \in Region \cup {Nil}, NEW b \in Branch \cup {Nil}
  PROVE  /\ ProgramAllowed(a, p) => ProgramFor(a, p) \in Program \cup {Nil}
         /\ RegionAllowed(a, g) => g \in regions \cup {Nil}
         /\ BranchAllowed(a, b) => BranchFor(a, b) \in LiveBranches \cup {Nil}
BY DEF StructureInv, ProgramAllowed, ProgramFor, RegionAllowed, BranchAllowed, BranchFor

LEMMA StructureNextInv ==
  ASSUME StructureInv, [OrgStructureNext]_orgStructureVars
  PROVE  StructureInv'
<1> USE OrgStructureAssumption
<1>1. ASSUME NEW g \in Region, CreateRegion(g) PROVE StructureInv'
  BY <1>1 DEF StructureInv, CreateRegion, LiveTeams, LiveBranches
<1>2. ASSUME NEW g \in Region, DeleteRegion(g) PROVE StructureInv'
  <2>1. /\ regions' = regions \ {g} /\ branches' = branches
        /\ \A b \in LiveBranches : branches[b] # g
        /\ g # Nil
    BY <1>2 DEF DeleteRegion
  <2>2. LiveBranches' = LiveBranches /\ branches' \in [LiveBranches -> regions' \cup {Nil}]
    BY <2>1 DEF StructureInv, LiveBranches
  <2>3. /\ LiveTeams' = LiveTeams
        /\ teams' \in [LiveTeams -> [program : Program \cup {Nil}, region : regions' \cup {Nil},
                                     branch : LiveBranches \cup {Nil}]]
    BY <1>2, <2>1 DEF DeleteRegion, StructureInv, LiveTeams
  <2>4. /\ scope' \in [Actors -> [program : Program \cup {Nil}, region : regions' \cup {Nil},
                                  branch : LiveBranches \cup {Nil}]]
        /\ \A a \in Actors : /\ scope'[a].program = scope[a].program
                             /\ scope'[a].branch = scope[a].branch
    BY <1>2, <2>1 DEF DeleteRegion, StructureInv
  <2> QED
    BY <2>1, <2>2, <2>3, <2>4 DEF StructureInv, Actors, Managers
<1>3. ASSUME NEW a \in Actors, NEW b \in Branch, NEW g \in Region \cup {Nil}, CreateBranch(a, b, g)
      PROVE StructureInv'
  <2>1. /\ branches' = [c \in LiveBranches \cup {b} |->
             IF c = b THEN ForcedRegion(a, g) ELSE branches[c]]
        /\ UNCHANGED <<regions, teams, scope>>
        /\ ForcedRegion(a, g) \in regions \cup {Nil}
    BY <1>3 DEF CreateBranch, ForcedRegion, StructureInv, Actors
  <2>2. /\ LiveBranches' = LiveBranches \cup {b}
        /\ branches' \in [LiveBranches \cup {b} -> regions \cup {Nil}]
    BY <2>1 DEF StructureInv, LiveBranches
  <2> QED
    BY <2>1, <2>2 DEF StructureInv, LiveTeams
<1>4. ASSUME NEW a \in Actors, NEW b \in Branch, NEW g \in Region \cup {Nil}, UpdateBranch(a, b, g)
      PROVE StructureInv'
  <2>1. /\ branches' = [branches EXCEPT ![b] = ForcedRegion(a, g)]
        /\ UNCHANGED <<regions, teams, scope>>
        /\ ForcedRegion(a, g) \in regions \cup {Nil}
    BY <1>4 DEF UpdateBranch, ForcedRegion, StructureInv, Actors
  <2>2. LiveBranches' = LiveBranches /\ branches' \in [LiveBranches -> regions \cup {Nil}]
    BY <2>1 DEF StructureInv, LiveBranches
  <2> QED
    BY <2>1, <2>2 DEF StructureInv, LiveTeams
<1>5. ASSUME NEW b \in Branch, DeleteBranch(b) PROVE StructureInv'
  <2>1. /\ LiveBranches' = LiveBranches \ {b}
        /\ branches' \in [LiveBranches \ {b} -> regions \cup {Nil}]
        /\ UNCHANGED <<regions, teams>> /\ b # Nil
        /\ \A t \in LiveTeams : teams[t].branch # b
    BY <1>5 DEF DeleteBranch, StructureInv, LiveBranches, BranchEmpty, Restrict
  <2>2. teams \in [LiveTeams -> [program : Program \cup {Nil}, region : regions \cup {Nil},
                                 branch : (LiveBranches \ {b}) \cup {Nil}]]
    BY <2>1 DEF StructureInv
  <2>3. /\ scope' \in [Actors -> [program : Program \cup {Nil}, region : regions \cup {Nil},
                                  branch : (LiveBranches \ {b}) \cup {Nil}]]
        /\ \A a \in Actors : /\ scope'[a].program = scope[a].program
                             /\ scope[a].branch = Nil => scope'[a].branch = Nil
    BY <1>5, <2>1 DEF DeleteBranch, StructureInv
  <2> QED
    BY <2>1, <2>2, <2>3 DEF StructureInv, LiveTeams, Actors, Managers
<1>6. ASSUME NEW a \in Managers, NEW p \in Program, NEW g \in Region,
             NEW b \in Branch \cup {Nil}, Rescope(a, p, g, b)
      PROVE StructureInv'
  <2>1. PICK row \in [program : Program \cup {Nil}, region : regions \cup {Nil},
                      branch : LiveBranches \cup {Nil}] : row = scope[a]
    BY DEF StructureInv, Actors
  <2>2. PICK new \in [program : Program \cup {Nil}, region : regions \cup {Nil},
                      branch : LiveBranches \cup {Nil}] :
          /\ scope' = [scope EXCEPT ![a] = new]
          /\ a = "region_manager" => new.branch = row.branch
          /\ a = "branch_manager" => new.program = row.program
    <3>1. CASE a = "program_manager"
      <4> DEFINE new == [row EXCEPT !.program = p]
      <4>1. scope' = [scope EXCEPT ![a] = new]
        BY <1>6, <2>1, <3>1 DEF Rescope
      <4>2. new \in [program : Program \cup {Nil}, region : regions \cup {Nil},
                     branch : LiveBranches \cup {Nil}]
        OBVIOUS
      <4>3. a # "region_manager" /\ a # "branch_manager"
        BY <3>1
      <4> HIDE DEF new
      <4> QED
        BY <4>1, <4>2, <4>3
    <3>2. CASE a = "region_manager"
      <4> DEFINE new == [row EXCEPT !.program = p, !.region = g]
      <4>1. scope' = [scope EXCEPT ![a] = new] /\ g \in regions
        BY <1>6, <2>1, <3>2 DEF Rescope, StructureInv, Actors
      <4>2. new \in [program : Program \cup {Nil}, region : regions \cup {Nil},
                     branch : LiveBranches \cup {Nil}]
        BY <4>1
      <4>3. a # "branch_manager" /\ new.branch = row.branch
        BY <3>2
      <4> HIDE DEF new
      <4> QED
        BY <4>1, <4>2, <4>3
    <3>3. CASE a = "branch_manager"
      <4> DEFINE new == [row EXCEPT !.branch = b]
      <4>1. scope' = [scope EXCEPT ![a] = new] /\ b \in LiveBranches \cup {Nil}
        BY <1>6, <2>1, <3>3 DEF Rescope
      <4>2. new \in [program : Program \cup {Nil}, region : regions \cup {Nil},
                     branch : LiveBranches \cup {Nil}]
        BY <4>1
      <4>3. a # "region_manager" /\ new.program = row.program
        BY <3>3
      <4> HIDE DEF new
      <4> QED
        BY <4>1, <4>2, <4>3
    <3> QED
      BY <3>1, <3>2, <3>3 DEF Managers
  <2>3. UNCHANGED <<regions, branches, teams>>
    BY <1>6 DEF Rescope
  <2> QED
    BY <2>1, <2>2, <2>3 DEF StructureInv, LiveBranches, LiveTeams, Actors, Managers
<1>7. ASSUME NEW a \in Actors, NEW t \in Team, NEW p \in Program \cup {Nil},
             NEW g \in Region \cup {Nil}, NEW b \in Branch \cup {Nil},
             CreateTeam(a, t, p, g, b)
      PROVE StructureInv'
  <2>1. /\ UNCHANGED <<regions, branches, scope>>
        /\ teams' = [u \in LiveTeams \cup {t} |->
             IF u = t THEN [program |-> ProgramFor(a, p), region |-> g, branch |-> BranchFor(a, b)]
             ELSE teams[u]]
        /\ [program |-> ProgramFor(a, p), region |-> g, branch |-> BranchFor(a, b)] \in TeamRow
    BY <1>7, TeamFields DEF CreateTeam, TeamRow
  <2>2. LiveTeams' = LiveTeams \cup {t} /\ teams' \in [LiveTeams \cup {t} -> TeamRow]
    BY <2>1 DEF StructureInv, LiveTeams, TeamRow
  <2> QED
    BY <2>1, <2>2 DEF StructureInv, LiveBranches, TeamRow
<1>8. ASSUME NEW a \in Actors, NEW t \in Team, NEW p \in Program \cup {Nil},
             NEW g \in Region \cup {Nil}, NEW b \in Branch \cup {Nil},
             NEW fields \in SUBSET {"program", "region", "branch"},
             UpdateTeam(a, t, fields, p, g, b)
      PROVE StructureInv'
  <2>1. /\ UNCHANGED <<regions, branches, scope>> /\ t \in LiveTeams
        /\ "program" \in fields => ProgramFor(a, p) \in Program \cup {Nil}
        /\ "region" \in fields => g \in regions \cup {Nil}
        /\ "branch" \in fields => BranchFor(a, b) \in LiveBranches \cup {Nil}
    BY <1>8, TeamFields DEF UpdateTeam, TeamVisible
  <2>2. teams[t] \in TeamRow
    BY <2>1 DEF StructureInv, TeamRow
  <2>3. teams' \in [LiveTeams -> TeamRow] /\ LiveTeams' = LiveTeams
    BY <1>8, <2>1, <2>2 DEF UpdateTeam, StructureInv, LiveTeams, TeamRow
  <2> QED
    BY <2>1, <2>3 DEF StructureInv, LiveBranches, TeamRow
<1>9. ASSUME NEW t \in Team, DeleteTeam(t) PROVE StructureInv'
  <2>1. /\ LiveTeams' = LiveTeams \ {t}
        /\ teams' \in [LiveTeams \ {t} -> TeamRow]
        /\ UNCHANGED <<regions, branches, scope>>
    BY <1>9 DEF DeleteTeam, StructureInv, LiveTeams, TeamRow, Restrict
  <2> QED
    BY <2>1 DEF StructureInv, LiveBranches, TeamRow
<1>10. CASE UNCHANGED orgStructureVars
  BY <1>10 DEF orgStructureVars, StructureInv, LiveBranches, LiveTeams
<1> QED
  BY <1>1, <1>2, <1>3, <1>4, <1>5, <1>6, <1>7, <1>8, <1>9, <1>10 DEF OrgStructureNext

\* The four kinds of filter, and what each names.
LEMMA FilterKinds ==
  ASSUME NEW f \in Filters
  PROVE  /\ f.type \in {"all", "region", "branch", "team"}
         /\ f.type = "region" => f.region \in regions
         /\ f.type = "branch" => f.branch \in LiveBranches
         /\ f.type = "team" => f.team \in LiveTeams
BY DEF Filters

\* Each row refers to what exists, or to nothing.
LEMMA StructureRows ==
  ASSUME StructureInv
  PROVE  /\ \A t \in LiveTeams : /\ teams[t].program \in Program \cup {Nil}
                                 /\ teams[t].region \in regions \cup {Nil}
                                 /\ teams[t].branch \in LiveBranches \cup {Nil}
         /\ \A b \in LiveBranches : branches[b] \in regions \cup {Nil}
         /\ \A a \in Actors : /\ scope[a].program \in Program \cup {Nil}
                              /\ scope[a].region \in regions \cup {Nil}
                              /\ scope[a].branch \in LiveBranches \cup {Nil}
         /\ Nil \notin regions /\ Nil \notin LiveBranches
BY OrgStructureAssumption DEF StructureInv

\* What opens is listed.
LEMMA OpensListed == StructureInv => OpensWhatItLists
<1> SUFFICES ASSUME StructureInv, NEW a \in Actors, ~ Adrift(a)
             PROVE  /\ \A t \in LiveTeams : TeamVisible(a, t) => t \in TeamsListed(a)
                    /\ \A g \in RegionsListed(a) : RegionVisible(a, g)
  BY DEF OpensWhatItLists
<1>1. ASSUME NEW t \in LiveTeams, TeamVisible(a, t) PROVE t \in TeamsListed(a)
  <2>1. CASE a = "org_admin"
    BY <2>1 DEF TeamsListed, Admin
  <2>2. CASE a = "program_manager"
    BY <1>1, <2>2 DEF TeamsListed, TeamVisible, Admin
  <2>3. CASE a = "region_manager"
    BY <1>1, <2>3, StructureRows DEF TeamsListed, TeamVisible, EffectiveRegion, RegionTeams,
                                     Adrift, Admin
  <2>4. CASE a = "branch_manager"
    BY <1>1, <2>4 DEF TeamsListed, TeamVisible, Adrift, Admin
  <2> QED
    BY <2>1, <2>2, <2>3, <2>4 DEF Actors, Managers, Admin
<1>2. \A g \in RegionsListed(a) : RegionVisible(a, g)
  BY DEF RegionsListed, RegionVisible, Adrift, Actors, Managers
<1> QED
  BY <1>1, <1>2

\* The administrator's list of deliveries is whom a message would reach.
LEMMA AdminDocuments ==
  ASSUME StructureInv, NEW f \in Filters
  PROVE  TemplateDeliveries(Admin, f) = Reached(Admin, f)
<1>1. /\ DocumentsOf(Admin) = LiveTeams
      /\ \A g : ByBranch(g) \subseteq LiveTeams
      /\ \A b : OfBranch(b) \subseteq LiveTeams
  BY DEF DocumentsOf, ByBranch, OfBranch, Admin
<1>2. CASE f.type = "all"
  BY <1>1, <1>2 DEF TemplateDeliveries, Reached, Admin
<1>3. CASE f.type = "region"
  BY <1>1, <1>3 DEF TemplateDeliveries, Reached, Admin
<1>4. CASE f.type = "branch"
  BY <1>1, <1>4 DEF TemplateDeliveries, Reached, Admin
<1>5. CASE f.type = "team"
  BY <1>1, <1>5, FilterKinds DEF TemplateDeliveries, Reached, Admin
<1> QED
  BY <1>2, <1>3, <1>4, <1>5, FilterKinds

\* What the pages of each kind of manager show.
LEMMA ProgramManagerPages ==
  ASSUME StructureInv, NEW a, a = "program_manager"
  PROVE  /\ PlayersListed(a) = TeamsListed(a)
         /\ DashboardTeams(a) \subseteq TeamsListed(a)
         /\ DashboardRegions(a) = RegionsListed(a)
         /\ \A g \in RegionsListed(a) :
              /\ Breakdown(a, g) \subseteq RegionPage(a, g)
              /\ RegionPage(a, g) \subseteq RegionCard(g).teams
              /\ RegionPage(a, g) \subseteq TeamsListed(a)
<1>1. CASE scope[a].program = Nil
  BY <1>1 DEF TeamsListed, PlayersListed, DashboardTeams, DashboardRegions, RegionsListed, Admin
<1>2. CASE scope[a].program # Nil
  <2>1. /\ TeamsListed(a) = OfProgram(scope[a].program)
        /\ DashboardTeams(a) = OfProgram(scope[a].program)
        /\ PlayersListed(a) = OfProgram(scope[a].program)
    BY <1>2 DEF TeamsListed, DashboardTeams, PlayersListed, OfProgram, Admin
  <2>2. DashboardRegions(a) = RegionsListed(a)
    BY <1>2, StructureRows DEF DashboardRegions, RegionsListed, OfProgram
  <2>3. ASSUME NEW g \in RegionsListed(a)
        PROVE  /\ Breakdown(a, g) \subseteq RegionPage(a, g)
               /\ RegionPage(a, g) \subseteq RegionCard(g).teams
               /\ RegionPage(a, g) \subseteq TeamsListed(a)
    BY <2>1 DEF Breakdown, RegionPage, RegionCard, RegionTeams, OfProgram, Admin
  <2> QED
    BY <2>1, <2>2, <2>3
<1> QED
  BY <1>1, <1>2

LEMMA RegionManagerPages ==
  ASSUME StructureInv, NEW a, a = "region_manager", scope[a].region # Nil
  PROVE  /\ PlayersListed(a) = TeamsListed(a)
         /\ DashboardTeams(a) \subseteq TeamsListed(a)
         /\ \A g \in RegionsListed(a) :
              /\ Breakdown(a, g) \subseteq RegionPage(a, g)
              /\ RegionPage(a, g) \subseteq RegionCard(g).teams
<1> DEFINE s == scope[a]
<1>1. /\ TeamsListed(a) = RegionTeams(s.region) \cap Optional(s.program, OfProgram(s.program))
      /\ PlayersListed(a) = RegionTeams(s.region) \cap Optional(s.program, OfProgram(s.program))
  BY DEF TeamsListed, PlayersListed, Optional, OfProgram, RegionTeams, Admin
<1>2. DashboardTeams(a) =
        {t \in LiveTeams : teams[t].region = s.region} \cap Optional(s.program, OfProgram(s.program))
  BY DEF DashboardTeams, Admin
<1>3. {t \in LiveTeams : teams[t].region = s.region} \subseteq RegionTeams(s.region)
  BY DEF RegionTeams
<1>4. ASSUME NEW g \in RegionsListed(a)
      PROVE  /\ Breakdown(a, g) \subseteq RegionPage(a, g)
             /\ RegionPage(a, g) \subseteq RegionCard(g).teams
  BY <1>2, <1>3 DEF Breakdown, RegionPage, RegionCard, RegionsListed, Admin
<1> QED
  BY <1>1, <1>2, <1>3, <1>4

LEMMA BranchManagerPages ==
  ASSUME StructureInv, NEW a, a = "branch_manager", scope[a].branch # Nil
  PROVE  /\ PlayersListed(a) = TeamsListed(a)
         /\ DashboardTeams(a) \subseteq TeamsListed(a)
         /\ \A g \in RegionsListed(a) :
              /\ Breakdown(a, g) \subseteq RegionPage(a, g)
              /\ RegionPage(a, g) \subseteq RegionCard(g).teams
BY DEF PlayersListed, TeamsListed, DashboardTeams, Breakdown, RegionPage, RegionCard, Optional,
       OfBranch, Admin

\* What is narrowed by the region or the branch stays in it, there being one
\* or not.
LEMMA MessagesInPlace ==
  ASSUME StructureInv, NEW a \in Narrowed, NEW f \in Recipients,
         f.type \in {"all", "team", "branch"} \/ (f.type = "region" /\ a = "region_manager")
  PROVE  Reached(a, f) \subseteq OwnPlace(a)
<1>0. f \in Filters
  BY DEF Recipients
<1>1. CASE a = "region_manager" /\ f.type = "branch"
  <2>1. CASE branches[f.branch] = scope[a].region
    BY <1>0, <1>1, <2>1, FilterKinds, StructureRows DEF Reached, OfBranch, OwnPlace, RegionTeams
  <2>2. CASE branches[f.branch] # scope[a].region
    BY <1>1, <2>2 DEF Reached
  <2> QED
    BY <2>1, <2>2
<1>2. CASE a = "region_manager" /\ f.type \in {"all", "team", "region"}
  BY <1>2 DEF Reached, ByBranch, OwnPlace, RegionTeams
<1>3. CASE a = "branch_manager" /\ f.type \in {"all", "team", "branch"}
  BY <1>3 DEF Reached, OwnPlace
<1> QED
  BY <1>1, <1>2, <1>3 DEF Narrowed

LEMMA NarrowedInPlace ==
  ASSUME StructureInv, NEW a \in Narrowed
  PROVE  StaysInPlace(a)
<1>1. DocumentsOf(a) \subseteq OwnPlace(a)
  BY DEF DocumentsOf, OwnPlace, ByBranch, RegionTeams, Narrowed
<1>2. ASSUME NEW f \in Filters PROVE TemplateDeliveries(a, f) \subseteq OwnPlace(a)
  <2>1. TemplateDeliveries(a, f) \subseteq DocumentsOf(a)
    BY DEF TemplateDeliveries
  <2> QED
    BY <1>1, <2>1
<1>3. ASSUME NEW t \in LiveTeams, NEW unit \in {"branch", "region"}, Counted(a, unit, t) > 0
      PROVE  t \in OwnPlace(a)
  BY <1>1, <1>3 DEF Counted
<1>4. ASSUME ~ Adrift(a)
      PROVE  /\ TeamsListed(a) = OwnPlace(a) \cap OfOwnProgram(a)
             /\ a = "region_manager" => CalendarListed(a) \subseteq OwnPlace(a)
  <2>1. CASE a = "region_manager"
    <3>1. scope[a].region # Nil
      BY <1>4, <2>1 DEF Adrift
    <3>2. TeamsListed(a) = RegionTeams(scope[a].region) \cap OfOwnProgram(a)
      BY <2>1, <3>1 DEF TeamsListed, OfOwnProgram, Optional, OfProgram, RegionTeams, Admin
    <3>3. CalendarListed(a) = {t \in LiveTeams : EffectiveRegion(t) = scope[a].region}
      BY <2>1, <3>1 DEF CalendarListed, Optional, Stamp
    <3>4. \A t \in LiveTeams :
            EffectiveRegion(t) = scope[a].region => t \in RegionTeams(scope[a].region)
      BY <3>1 DEF EffectiveRegion, RegionTeams
    <3> QED
      BY <2>1, <3>2, <3>3, <3>4 DEF OwnPlace
  <2>2. CASE a = "branch_manager"
    <3>1. scope[a].branch # Nil /\ scope[a].program = Nil
      BY <1>4, <2>2 DEF Adrift, StructureInv
    <3> QED
      BY <2>2, <3>1 DEF TeamsListed, OwnPlace, OfOwnProgram, Optional, OfBranch, Admin
  <2> QED
    BY <2>1, <2>2 DEF Narrowed
<1> QED
  BY <1>2, <1>3, <1>4, MessagesInPlace DEF StaysInPlace

\* Whose region or branch was deleted has no team listed, and every player.
LEMMA AdriftPages ==
  ASSUME StructureInv, NEW a \in Managers, Adrift(a)
  PROVE  TeamsListed(a) = {} /\ PlayersListed(a) = OfOwnProgram(a)
<1>1. CASE a = "region_manager"
  BY <1>1 DEF Adrift, TeamsListed, PlayersListed, OfOwnProgram, Optional, OfProgram, Admin
<1>2. CASE a = "branch_manager"
  BY <1>2 DEF StructureInv, Adrift, TeamsListed, PlayersListed, OfOwnProgram, Optional, Admin
<1> QED
  BY <1>1, <1>2 DEF Adrift

LEMMA StructureAgrees == StructureInv => ScopesAgree
<1> SUFFICES ASSUME StructureInv PROVE ScopesAgree
  OBVIOUS
<1>1. OpensWhatItLists
  BY OpensListed
<1>2. \A f \in Filters : TemplateDeliveries(Admin, f) = Reached(Admin, f)
  BY AdminDocuments
<1>3. \A f \in Recipients : Reached("program_manager", f) = Reached(Admin, f)
  BY DEF Reached, Admin
<1>4. ASSUME NEW a \in Managers, ~ Adrift(a) PROVE PagesAgree(a)
  <2>1. CASE a = "program_manager"
    BY <2>1, ProgramManagerPages DEF PagesAgree
  <2>2. CASE a = "region_manager"
    <3>1. scope[a].region # Nil
      BY <1>4, <2>2 DEF Adrift
    <3> QED
      BY <2>2, <3>1, RegionManagerPages DEF PagesAgree
  <2>3. CASE a = "branch_manager"
    <3>1. scope[a].branch # Nil
      BY <1>4, <2>3 DEF Adrift
    <3> QED
      BY <2>3, <3>1, BranchManagerPages DEF PagesAgree
  <2> QED
    BY <2>1, <2>2, <2>3 DEF Managers
<1> QED
  BY <1>1, <1>2, <1>3, <1>4, AdriftPages, NarrowedInPlace DEF ScopesAgree

-----------------------------------------------------------------------------
(* The pages.  Unless the one membership is not the one in the cookie, each   *)
(* redirect is to a page of a lower rank, so none is asked for again: the     *)
(* form, the pages of the organization or the choice of a role, whichever     *)
(* redirects to the other, and last the pages that redirect to both.          *)

CookieRow == [user : BOOLEAN, club : Club \cup {NoClub}, role : PageRole \cup {NoRole}]

\* The one membership is not the one in the cookie.
MovedAway == /\ Cardinality(held) = 1 /\ ~ deleted
             /\ <<cookie.club, cookie.role>> \notin held

OneOpen == Cardinality(held) = 1 /\ ~ deleted

Rank(page, user) ==
  CASE page = Shown                -> 0
    [] page = Login /\ ~ user      -> 1
    [] page # Login /\ ~ user      -> 2
    [] page = RoleSelect /\ user   -> IF OneOpen THEN 4 ELSE 3
    [] page \in {Login, Legacy} /\ user -> 5
    [] OTHER                       -> IF OneOpen THEN 3 ELSE 4

PagesInv ==
  /\ held \subseteq Membership
  /\ cookie \in CookieRow
  /\ (cookie.club = NoClub) <=> (cookie.role = NoRole)
  /\ deleted \in BOOLEAN
  /\ browser \in [page : Redirecting \cup {Shown}, trail : SUBSET (Redirecting \X CookieRow)]
  /\ MovedAway \/ \A e \in browser.trail :
                    Rank(e[1], e[2].user) > Rank(browser.page, cookie.user)

LEMMA PagesDistinct ==
  ASSUME NEW c
  PROVE  /\ Login # RoleSelect /\ Login # Legacy /\ Login # Shown
         /\ RoleSelect # Legacy /\ RoleSelect # Shown /\ Legacy # Shown
         /\ Tenant(c) \notin {Login, RoleSelect, Legacy, Shown}
         /\ Tenant(c)[2] = c
BY DEF Login, RoleSelect, Legacy, Shown, Tenant

LEMMA PagesInitInv == OrgPagesInit => PagesInv
<1> SUFFICES ASSUME OrgPagesInit PROVE PagesInv
  OBVIOUS
<1>1. /\ cookie = [user |-> FALSE, club |-> NoClub, role |-> NoRole]
      /\ held \subseteq Membership
      /\ deleted = FALSE
      /\ browser = [page |-> Shown, trail |-> {}]
  BY DEF OrgPagesInit, Anonymous
<1>2. /\ cookie \in CookieRow
      /\ (cookie.club = NoClub) <=> (cookie.role = NoRole)
  BY <1>1 DEF CookieRow
<1>3. /\ browser \in [page : Redirecting \cup {Shown}, trail : SUBSET (Redirecting \X CookieRow)]
      /\ \A e \in browser.trail : Rank(e[1], e[2].user) > Rank(browser.page, cookie.user)
  BY <1>1
<1> QED
  BY <1>1, <1>2, <1>3 DEF PagesInv

LEMMA PagesTyped == PagesInv => OrgPagesTypeOK
BY DEF PagesInv, OrgPagesTypeOK

LEMMA LowerRank == PagesInv => OnlyMovedUsersLoop
<1> SUFFICES ASSUME PagesInv, Looping, ~ MovedAway PROVE FALSE
  BY DEF OnlyMovedUsersLoop, MovedAway
<1>1. <<browser.page, cookie>> \in browser.trail
  BY DEF Looping
<1>2. Rank(browser.page, cookie.user) > Rank(browser.page, cookie.user)
  BY <1>1 DEF PagesInv
<1>3. Rank(browser.page, cookie.user) \in Int
  BY DEF Rank
<1> QED
  BY <1>2, <1>3

\* What a page answers: the membership in the cookie stays, and so does its
\* user, but for a user who is gone.
LEMMA AnswerTyped ==
  ASSUME PagesInv, NEW page \in Redirecting
  PROVE  /\ Answer(page)[1] \in Redirecting \cup {Shown}
         /\ Answer(page)[2] \in {cookie, Forgotten}
<1>1. Forgotten \in CookieRow
  BY DEF PagesInv, Forgotten, CookieRow
<1>2. /\ LoginPage[1] \in Redirecting \cup {Shown}
      /\ LoginPage[2] = cookie
  BY DEF LoginPage, Redirecting, PagesInv, CookieRow
<1>3. /\ LegacyPage[1] \in Redirecting \cup {Shown}
      /\ LegacyPage[2] = cookie
  BY DEF LegacyPage, Redirecting, PagesInv, CookieRow
<1>4. ASSUME NEW c
      PROVE /\ TenantPage(c)[1] \in Redirecting \cup {Shown}
            /\ TenantPage(c)[2] \in {cookie, Forgotten}
  BY DEF TenantPage, Redirecting
<1>5. held # {} => (CHOOSE m \in held : TRUE)[1] \in Club
  BY DEF PagesInv, Membership
<1>6. /\ RoleSelectPage[1] \in Redirecting \cup {Shown}
      /\ RoleSelectPage[2] \in {cookie, Forgotten}
  BY <1>5 DEF RoleSelectPage, Redirecting
<1> QED
  BY <1>2, <1>3, <1>4, <1>6 DEF Answer

\* Where a page redirects to has a lower rank, unless the member was moved.
LEMMA AnswerLower ==
  ASSUME PagesInv, ~ MovedAway, NEW page \in Redirecting, Answer(page)[1] # Shown
  PROVE  Rank(page, cookie.user) > Rank(Answer(page)[1], Answer(page)[2].user)
<1>1. cookie.user \in BOOLEAN /\ (cookie.club = NoClub <=> cookie.role = NoRole)
  BY DEF PagesInv, CookieRow
<1>2. cookie.club # NoClub => cookie.club \in Club
  BY DEF PagesInv, CookieRow
<1>3. Forgotten.user = FALSE
  BY DEF Forgotten, PagesInv, CookieRow
\* A user who is gone: to the form, which is shown.
<1>4. CASE ~ cookie.user
  <2>1. Answer(page) = IF page = Login THEN <<Shown, cookie>> ELSE <<Login, cookie>>
    BY <1>4, PagesDistinct DEF Answer, LoginPage, RoleSelectPage, LegacyPage, TenantPage
  <2>2. page # Login /\ Answer(page)[1] = Login /\ Answer(page)[2] = cookie
    BY <2>1
  <2>3. page # Shown
    BY PagesDistinct DEF Redirecting
  <2> QED
    BY <1>4, <2>2, <2>3, PagesDistinct DEF Rank
\* The form and the old addresses: to the choice of a role or to the club.
<1>5. CASE cookie.user /\ page \in {Login, Legacy}
  <2>1. Rank(page, cookie.user) = 5
    BY <1>5, PagesDistinct DEF Rank
  <2>2. /\ Answer(page)[1] \in {RoleSelect, Tenant(cookie.club)}
        /\ Answer(page)[2] = cookie
    BY <1>5, PagesDistinct DEF Answer, LoginPage, LegacyPage
  <2>3. Rank(Answer(page)[1], cookie.user) \in {3, 4}
    BY <1>5, <2>2, PagesDistinct DEF Rank
  <2> QED
    BY <2>1, <2>2, <2>3
\* The choice of a role: to the only membership, or to the form.
<1>6. CASE cookie.user /\ page = RoleSelect
  <2>1. Answer(page) = RoleSelectPage
    BY <1>6, PagesDistinct DEF Answer
  <2>2. CASE deleted \/ held = {}
    <3>1. Answer(page)[1] = Login /\ Answer(page)[2] = Forgotten
      BY <1>6, <2>1, <2>2 DEF RoleSelectPage
    <3> QED
      BY <1>3, <1>6, <3>1, PagesDistinct DEF Rank
  <2>3. CASE ~ deleted /\ held # {}
    <3>1. Cardinality(held) = 1
      BY <1>6, <2>1, <2>3 DEF RoleSelectPage
    <3>2. PICK c : Answer(page)[1] = Tenant(c) /\ Answer(page)[2] = cookie
      <4>1. PICK c : c = (CHOOSE m \in held : TRUE)[1]
        OBVIOUS
      <4>2. RoleSelectPage = <<Tenant(c), cookie>>
        BY <1>6, <2>3, <3>1, <4>1, Zenon DEF RoleSelectPage
      <4> QED
        BY <2>1, <4>2
    <3>3. OneOpen
      BY <2>3, <3>1 DEF OneOpen
    <3> QED
      BY <1>6, <3>2, <3>3, PagesDistinct DEF Rank
  <2> QED
    BY <2>2, <2>3
\* A page of the club: to the choice of a role, if there is one to make.
<1>7. CASE cookie.user /\ page \notin {Login, Legacy, RoleSelect}
  <2>1. PICK c \in Club : page = Tenant(c)
    BY <1>7 DEF Redirecting
  <2>2. Answer(page) = TenantPage(c)
    BY <2>1, PagesDistinct DEF Answer
  <2>3. page \notin {Shown, Login, Legacy, RoleSelect}
    BY <2>1, PagesDistinct
  <2>4. CASE cookie.club # NoClub /\ deleted
    <3>1. Answer(page)[1] = Login /\ Answer(page)[2] = Forgotten
      BY <1>7, <2>2, <2>4 DEF TenantPage
    <3> QED
      BY <1>3, <1>7, <2>3, <3>1, PagesDistinct DEF Rank
  <2>5. CASE ~ (cookie.club # NoClub /\ deleted)
    <3>1. Answer(page)[1] = RoleSelect /\ Answer(page)[2] = cookie
      BY <1>7, <2>2, <2>5 DEF TenantPage
    <3>2. <<cookie.club, cookie.role>> \notin held
      <4>1. CASE cookie.club = NoClub
        BY <4>1, OrgPagesAssumption DEF PagesInv, Membership
      <4>2. CASE cookie.club # NoClub
        BY <1>7, <2>2, <2>5, <4>2 DEF TenantPage
      <4> QED
        BY <4>1, <4>2
    <3>3. ~ OneOpen
      BY <3>2 DEF OneOpen, MovedAway
    <3> QED
      BY <1>7, <2>3, <3>1, <3>3, PagesDistinct DEF Rank
  <2> QED
    BY <2>4, <2>5
<1> QED
  BY <1>1, <1>4, <1>5, <1>6, <1>7

\* A request of the browser's own, or of other people: the way starts afresh.
LEMMA AfreshInv ==
  ASSUME PagesInv, cookie' \in CookieRow, (cookie.club = NoClub <=> cookie.role = NoRole)',
         held' \subseteq Membership, deleted' \in BOOLEAN,
         NEW page \in Redirecting \cup {Shown}, browser' = [page |-> page, trail |-> {}]
  PROVE  PagesInv'
<1>1. browser' \in [page : Redirecting \cup {Shown}, trail : SUBSET (Redirecting \X CookieRow)]
  OBVIOUS
<1>2. \A e \in browser'.trail : FALSE
  OBVIOUS
<1> QED
  BY <1>1, <1>2 DEF PagesInv

\* The cookie of a membership, and its page.
LEMMA ForTyped ==
  ASSUME NEW m \in Membership
  PROVE  /\ For(m) \in CookieRow /\ (For(m).club = NoClub <=> For(m).role = NoRole)
         /\ Tenant(m[1]) \in Redirecting
<1>1. m[1] \in Club /\ m[2] \in PageRole
  BY DEF Membership
<1>2. m[1] # NoClub /\ m[2] # NoRole
  BY <1>1, OrgPagesAssumption DEF PageRole, NoRole
<1> QED
  BY <1>1, <1>2 DEF For, CookieRow, Redirecting

LEMMA PagesNextInv ==
  ASSUME PagesInv, [OrgPagesNext]_orgPagesVars
  PROVE  PagesInv'
<1>1. ASSUME NEW page \in Redirecting, Open(page) PROVE PagesInv'
  BY <1>1, AfreshInv DEF Open, Ask, PagesInv
<1>2. CASE Follow
  <2>1. /\ browser.page \in Redirecting /\ UNCHANGED <<held, deleted>>
        /\ cookie' = Answer(browser.page)[2]
        /\ browser' = [page |-> Answer(browser.page)[1],
                       trail |-> IF Answer(browser.page)[1] = Shown THEN {}
                                 ELSE browser.trail \cup {<<browser.page, cookie>>}]
    BY <1>2 DEF Follow, Settled, PagesInv
  <2>2. /\ browser'.page \in Redirecting \cup {Shown}
        /\ cookie' \in {cookie, Forgotten}
    BY <2>1, AnswerTyped
  <2>3. /\ cookie' \in CookieRow /\ cookie'.club = cookie.club /\ cookie'.role = cookie.role
    BY <2>2 DEF PagesInv, CookieRow, Forgotten
  <2>4. browser' \in [page : Redirecting \cup {Shown}, trail : SUBSET (Redirecting \X CookieRow)]
    BY <2>1, <2>2 DEF PagesInv
  <2>5. MovedAway' <=> MovedAway
    BY <2>1, <2>3 DEF MovedAway
  <2>6. ASSUME ~ MovedAway, NEW e \in browser'.trail
        PROVE  Rank(e[1], e[2].user)' > Rank(browser.page, cookie.user)'
    <3>1. /\ Answer(browser.page)[1] # Shown
          /\ browser'.page = Answer(browser.page)[1] /\ e \in browser.trail \cup {<<browser.page, cookie>>}
      BY <2>1, <2>6
    <3>2. Rank(browser.page, cookie.user) > Rank(Answer(browser.page)[1], Answer(browser.page)[2].user)
      BY <2>1, <2>6, <3>1, AnswerLower
    <3>3. e \in browser.trail => Rank(e[1], e[2].user) > Rank(browser.page, cookie.user)
      BY <2>6 DEF PagesInv
    <3>4. \A p, u : Rank(p, u) \in Int
      BY DEF Rank
    <3>5. Rank(e[1], e[2].user) > Rank(Answer(browser.page)[1], Answer(browser.page)[2].user)
      <4>1. CASE e \in browser.trail
        BY <3>2, <3>3, <3>4, <4>1
      <4>2. CASE e = <<browser.page, cookie>>
        BY <3>2, <4>2
      <4> QED
        BY <3>1, <4>1, <4>2
    <3>6. \A p, u : Rank(p, u)' = Rank(p, u)
      BY <2>1 DEF Rank, OneOpen
    <3> QED
      BY <2>1, <3>1, <3>5, <3>6
  <2> QED
    BY <2>1, <2>3, <2>4, <2>5, <2>6 DEF PagesInv
<1>3. CASE LogIn
  <2>1. CASE Cardinality(held) = 1
    <3>1. PICK m \in held : cookie' = For(m) /\ Ask(Tenant(m[1]))
      BY <1>3, <2>1 DEF LogIn
    <3>2. m \in Membership
      BY <3>1 DEF PagesInv
    <3> QED
      BY <1>3, <3>1, <3>2, ForTyped, AfreshInv DEF LogIn, Ask, PagesInv
  <2>2. CASE Cardinality(held) # 1
    <3>1. cookie' = [user |-> TRUE, club |-> NoClub, role |-> NoRole] /\ Ask(RoleSelect)
      BY <1>3, <2>2 DEF LogIn, Anonymous
    <3>2. cookie' \in CookieRow /\ (cookie.club = NoClub <=> cookie.role = NoRole)'
      BY <3>1 DEF CookieRow
    <3> QED
      BY <1>3, <3>1, <3>2, AfreshInv DEF LogIn, Ask, PagesInv, Redirecting
  <2> QED
    BY <2>1, <2>2
<1>4. CASE LogOut
  <2>1. cookie' = [user |-> FALSE, club |-> NoClub, role |-> NoRole] /\ Ask(Login)
    BY <1>4 DEF LogOut, Anonymous
  <2>2. cookie' \in CookieRow /\ (cookie.club = NoClub <=> cookie.role = NoRole)'
    BY <2>1 DEF CookieRow
  <2> QED
    BY <1>4, <2>1, <2>2, AfreshInv DEF LogOut, Ask, PagesInv, Redirecting
<1>5. ASSUME NEW m \in Membership, SwitchRole(m) PROVE PagesInv'
  BY <1>5, ForTyped, AfreshInv DEF SwitchRole, Ask, PagesInv
<1>6. ASSUME NEW m \in Membership,
             \/ JoinedBy(m) \/ RemovedFrom(m)
             \/ \E role \in PageRole : MovedTo(m, role)
      PROVE PagesInv'
  <2>1. UNCHANGED <<cookie, deleted>> /\ Afresh
    BY <1>6 DEF JoinedBy, RemovedFrom, MovedTo
  <2>2. held' \subseteq Membership
    <3>1. JoinedBy(m) \/ RemovedFrom(m) => held' \subseteq held \cup {m}
      BY DEF JoinedBy, RemovedFrom
    <3>2. ASSUME NEW role \in PageRole, MovedTo(m, role) PROVE held' \subseteq held \cup {<<m[1], role>>}
      BY <3>2 DEF MovedTo
    <3>3. \A role \in PageRole : <<m[1], role>> \in Membership
      BY DEF Membership
    <3> QED
      BY <1>6, <3>1, <3>2, <3>3 DEF PagesInv
  <2>3. /\ browser.page \in Redirecting \cup {Shown}
        /\ browser' = [page |-> browser.page, trail |-> {}]
    BY <2>1 DEF PagesInv, Afresh
  <2> QED
    BY <2>1, <2>2, <2>3, AfreshInv DEF PagesInv
<1>7. CASE UserDeleted
  <2>1. /\ UNCHANGED <<cookie, held>> /\ deleted' \in BOOLEAN
        /\ browser' = [page |-> browser.page, trail |-> {}]
        /\ browser.page \in Redirecting \cup {Shown}
    BY <1>7 DEF UserDeleted, Afresh, PagesInv
  <2> QED
    BY <2>1, AfreshInv DEF PagesInv
<1>8. CASE UNCHANGED orgPagesVars
  <2>1. UNCHANGED <<cookie, held, deleted, browser>>
    BY <1>8 DEF orgPagesVars
  <2> QED
    BY <2>1 DEF PagesInv, MovedAway, Rank, OneOpen, CookieRow
<1> QED
  BY <1>1, <1>2, <1>3, <1>4, <1>5, <1>6, <1>7, <1>8 DEF OrgPagesNext

-----------------------------------------------------------------------------
(* The administrator's desk.  A request that nobody overlapped is the only  *)
(* one in flight: so what it has read still holds when it commits, unless a *)
(* row was deleted, which takes no other request to do.                     *)

TaskRow == [status : TaskStatus, stamped : BOOLEAN, live : BOOLEAN, raced : BOOLEAN]
ItemRow == [task : DOMAIN tasks, kind : {"subtask", "comment"}, position : Nat,
            ticked : BOOLEAN, live : BOOLEAN, raced : BOOLEAN]
ListRow == [name : ListName, live : BOOLEAN]

\* What a request in flight has read.
HandRow ==
  [op : {"task"}, task : DOMAIN tasks, status : TaskStatus, seen : TaskStatus, raced : BOOLEAN]
  \cup [op : {"item"}, task : DOMAIN tasks, kind : {"subtask", "comment"}, position : Nat,
        raced : BOOLEAN]
  \cup [op : {"list"}, name : ListName, raced : BOOLEAN]
  \cup [op : {"unlist"}, list : DOMAIN lists, swept : SUBSET ((DOMAIN lists) \X Reader),
        raced : BOOLEAN]
  \cup [op : {"member"}, list : DOMAIN lists, reader : Reader, raced : BOOLEAN]

DeskTyped ==
  /\ tasks \in Seq(TaskRow) /\ items \in Seq(ItemRow) /\ lists \in Seq(ListRow)
  /\ \A i \in DOMAIN items : /\ items[i].position < i
                             /\ items[i].live => items[i].task \in LiveTasks
  /\ listMembers \subseteq LiveLists \X Reader
  /\ hands \in [Hand -> HandRow \cup {AtRest}]
  /\ \A r \in Hand : hands[r].op = "item" => hands[r].position <= Len(items)

\* Whom nobody overlapped is alone.
Alone ==
  \A r \in Hand : hands[r] # AtRest /\ ~ hands[r].raced =>
    \A s \in Hand \ {r} : hands[s] = AtRest

\* What it has read holds.
ReadHolds ==
  \A r \in Hand : hands[r] # AtRest /\ ~ hands[r].raced =>
    /\ hands[r].op = "task" /\ tasks[hands[r].task].live =>
         tasks[hands[r].task].status = hands[r].seen
    /\ hands[r].op = "item" /\ hands[r].kind = "subtask" =>
         \A i \in ItemsOf(hands[r].task, "subtask") : items[i].position < hands[r].position

DeskInv == DeskTyped /\ Alone /\ ReadHolds /\ DeskAddsUp

LEMMA AtRestIsNoRow == AtRest.op = "idle" /\ AtRest \notin HandRow
BY DEF AtRest, HandRow

LEMMA DeskInitInv == AdminDeskInit => DeskInv
<1> SUFFICES ASSUME AdminDeskInit PROVE DeskInv
  OBVIOUS
<1>1. /\ tasks = <<>> /\ items = <<>> /\ lists = <<>> /\ listMembers = {}
      /\ hands = [r \in Hand |-> AtRest]
  BY DEF AdminDeskInit
<1>2. LiveTasks = {} /\ LiveLists = {}
  BY <1>1 DEF LiveTasks, LiveLists
<1>3. DeskTyped
  BY <1>1, AtRestIsNoRow DEF DeskTyped
<1>4. Alone /\ ReadHolds
  BY <1>1 DEF Alone, ReadHolds
<1> QED
  BY <1>2, <1>3, <1>4 DEF DeskInv, DeskAddsUp

LEMMA DeskTypes == DeskInv => AdminDeskTypeOK
<1> SUFFICES ASSUME DeskInv PROVE AdminDeskTypeOK
  OBVIOUS
<1>1. \A t \in DOMAIN tasks : tasks[t] \in TaskRow
  BY DEF DeskInv, DeskTyped
<1>2. \A r \in Hand : hands[r].op \in {"idle", "task", "item", "list", "unlist", "member"}
  BY AtRestIsNoRow DEF DeskInv, DeskTyped, HandRow
<1> QED
  BY <1>1, <1>2 DEF DeskInv, DeskTyped, AdminDeskTypeOK, TaskRow

\* The last of the positions below a bound, and -1.
LEMMA LastPosition ==
  ASSUME NEW n \in Nat, NEW S \in SUBSET (0..(n - 1))
  PROVE  /\ 1 + Max({-1} \cup S) \in 0..n
         /\ \A y \in S : y < 1 + Max({-1} \cup S)
<1> DEFINE U == {-1} \cup S
           T == {n - 1 - x : x \in U}
<1>1. PICK m \in T : \A y \in T : m <= y
  <2>1. T \in SUBSET Nat
    OBVIOUS
  <2>2. T # {}
    OBVIOUS
  <2> HIDE DEF T
  <2> QED
    BY <2>1, <2>2, LeastNatural
<1>2. PICK x \in U : m = n - 1 - x
  BY <1>1
<1>3. ASSUME NEW y \in U PROVE x >= y
  <2>1. x \in Int /\ y \in Int
    OBVIOUS
  <2>2. n - 1 - y \in T
    OBVIOUS
  <2>3. m <= n - 1 - y
    BY <1>1, <2>2
  <2> HIDE DEF T, U
  <2> QED
    BY <1>2, <2>1, <2>3
<1>4. Max(U) \in U /\ \A y \in U : Max(U) >= y
  <2> HIDE DEF U
  <2> QED
    BY <1>3 DEF Max
<1>5. PICK k : k = Max(U)
  OBVIOUS
<1>6. k \in U /\ \A y \in U : k >= y
  BY <1>4, <1>5
<1>7. k \in -1..(n - 1) /\ \A y \in S : y <= k
  BY <1>6
<1>8. 1 + k \in 0..n /\ \A y \in S : y < 1 + k
  BY <1>7
<1> QED
  BY <1>5, <1>8

LEMMA NextIsFree ==
  ASSUME DeskTyped, NEW t
  PROVE  /\ NextPosition(t) \in 0..Len(items)
         /\ \A i \in ItemsOf(t, "subtask") : items[i].position < NextPosition(t)
<1>1. PICK S : S = {items[i].position : i \in ItemsOf(t, "subtask")}
  OBVIOUS
<1>2. \A i \in ItemsOf(t, "subtask") :
        i \in 1..Len(items) /\ items[i].position \in Nat /\ items[i].position < i
  <2>1. /\ items \in Seq(ItemRow)
        /\ \A i \in DOMAIN items : items[i].position < i
    BY DEF DeskTyped
  <2>2. \A i \in 1..Len(items) : items[i] \in ItemRow
    BY <2>1
  <2>3. \A i \in 1..Len(items) : items[i].position \in Nat /\ items[i].position < i
    BY <2>1, <2>2 DEF ItemRow
  <2> QED
    BY <2>1, <2>3 DEF ItemsOf
<1>3. S \in SUBSET (0..(Len(items) - 1)) /\ Len(items) \in Nat
  BY <1>1, <1>2 DEF DeskTyped
<1>4. NextPosition(t) = 1 + Max({-1} \cup S)
  BY <1>1 DEF NextPosition
<1>5. /\ NextPosition(t) \in 0..Len(items)
      /\ \A y \in S : y < NextPosition(t)
  BY <1>3, <1>4, LastPosition
<1> QED
  BY <1>1, <1>5

LEMMA PairsGrow ==
  ASSUME NEW A, NEW B, NEW C, A \subseteq B
  PROVE  SUBSET (A \X C) \subseteq SUBSET (B \X C)
<1>1. A \X C \subseteq B \X C
  OBVIOUS
<1> QED
  BY <1>1, Zenon

LEMMA RowsGrow ==
  ASSUME DOMAIN tasks \subseteq DOMAIN tasks', DOMAIN lists \subseteq DOMAIN lists'
  PROVE  HandRow \subseteq HandRow' /\ ItemRow \subseteq ItemRow'
<1>1. ItemRow \subseteq ItemRow'
  BY DEF ItemRow
<1>2. SUBSET ((DOMAIN lists) \X Reader) \subseteq SUBSET ((DOMAIN lists') \X Reader)
  BY PairsGrow
<1>3. HandRow \subseteq HandRow'
  BY <1>2 DEF HandRow
<1> QED
  BY <1>1, <1>3

\* A request that is marked is otherwise as it was.
Mark(q, b) == [q EXCEPT !.raced = b]

LEMMA Marked ==
  ASSUME NEW q \in HandRow, NEW b \in BOOLEAN
  PROVE  /\ Mark(q, b) \in HandRow
         /\ Mark(q, b).raced = b
         /\ Mark(q, b).op = q.op
         /\ q.op \in {"task", "item"} => Mark(q, b).task = q.task
         /\ q.op = "task" => Mark(q, b).seen = q.seen
         /\ q.op = "item" => /\ Mark(q, b).kind = q.kind
                             /\ Mark(q, b).position = q.position
<1>1. CASE q.op = "task"
  BY <1>1 DEF HandRow, Mark
<1>2. CASE q.op = "item"
  BY <1>2 DEF HandRow, Mark
<1>3. CASE q.op = "list"
  BY <1>3 DEF HandRow, Mark
<1>4. CASE q.op = "unlist"
  BY <1>4 DEF HandRow, Mark
<1>5. CASE q.op = "member"
  BY <1>5 DEF HandRow, Mark
<1> QED
  BY <1>1, <1>2, <1>3, <1>4, <1>5 DEF HandRow

\* A request that reads marks the others, and is marked if there are any.
LEMMA HandleInv ==
  ASSUME DeskInv, NEW r \in Hand, NEW q \in HandRow, Handle(r, q),
         q.op = "task" => tasks[q.task].status = q.seen,
         q.op = "item" =>
           /\ q.position <= Len(items)
           /\ q.kind = "subtask" =>
                \A i \in ItemsOf(q.task, "subtask") : items[i].position < q.position
  PROVE  DeskInv'
<1> DEFINE others == {s \in Hand \ {r} : hands[s] # AtRest}
<1>1. PICK b \in BOOLEAN : b = (others # {})
  OBVIOUS
<1>2. /\ UNCHANGED <<tasks, items, lists, listMembers>>
      /\ hands' = [s \in Hand |->
           CASE s = r        -> Mark(q, others # {})
             [] s \in others -> Mark(hands[s], TRUE)
             [] OTHER        -> AtRest]
  BY Zenon DEF Handle, Mark
<1> HIDE DEF others
<1>4h. r \notin others /\ \A s \in Hand \ {r} : s \in others <=> hands[s] # AtRest
  BY DEF others
<1>3. /\ hands'[r] = Mark(q, b)
      /\ \A s \in Hand \ {r} : hands[s] # AtRest => hands'[s] = Mark(hands[s], TRUE)
      /\ \A s \in Hand \ {r} : hands[s] = AtRest => hands'[s] = AtRest
  <2>1. hands'[r] = Mark(q, others # {})
    BY <1>2, <1>4h
  <2>2. \A s \in Hand \ {r} : s \in others => hands'[s] = Mark(hands[s], TRUE)
    BY <1>2, <1>4h
  <2>3. \A s \in Hand \ {r} : s \notin others => hands'[s] = AtRest
    BY <1>2
  <2>4. hands'[r] = Mark(q, b)
    BY <1>1, <2>1, Zenon
  <2> QED
    BY <1>4h, <2>2, <2>3, <2>4
<1>4. /\ hands \in [Hand -> HandRow \cup {AtRest}]
      /\ \A s \in Hand : hands[s].op = "item" => hands[s].position <= Len(items)
  BY DEF DeskInv, DeskTyped
<1>5. /\ hands'[r] \in HandRow /\ hands'[r].raced = b /\ hands'[r].op = q.op
      /\ q.op \in {"task", "item"} => hands'[r].task = q.task
      /\ q.op = "task" => hands'[r].seen = q.seen
      /\ q.op = "item" => hands'[r].kind = q.kind /\ hands'[r].position = q.position
  <2>1. hands'[r] = Mark(q, b)
    BY <1>3
  <2> QED
    BY <2>1, Marked
<1>6. ASSUME NEW s \in Hand \ {r}, hands[s] # AtRest
      PROVE  /\ hands'[s] \in HandRow /\ hands'[s].raced
             /\ hands'[s].op = "item" => hands'[s].position <= Len(items)
  <2>1. hands[s] \in HandRow /\ hands'[s] = Mark(hands[s], TRUE)
    BY <1>3, <1>4, <1>6
  <2>2. /\ hands'[s] \in HandRow /\ hands'[s].raced = TRUE /\ hands'[s].op = hands[s].op
        /\ hands[s].op = "item" => hands'[s].position = hands[s].position
    BY ZenonT(60), <2>1, Marked
  <2> QED
    BY <1>4, <2>2
<1>7. hands' \in [Hand -> HandRow \cup {AtRest}]
  <2>1. \A s \in Hand : hands'[s] \in HandRow \cup {AtRest}
    BY <1>3, <1>5, <1>6
  <2> QED
    BY <1>2, <2>1
<1>8. \A s \in Hand \ {r} : hands'[s] = AtRest \/ hands'[s].raced
  BY <1>3, <1>6
<1>9. \A s \in Hand : hands'[s].op = "item" => hands'[s].position <= Len(items)
  BY <1>3, <1>5, <1>6, AtRestIsNoRow
<1>10. DeskTyped'
  BY <1>2, <1>7, <1>9 DEF DeskInv, DeskTyped, HandRow, ItemRow, LiveTasks, LiveLists
<1>11. Alone'
  <2>1. ~ b => \A s \in Hand \ {r} : hands'[s] = AtRest
    BY <1>1, <1>3, <1>4h
  <2> QED
    BY <1>5, <1>8, <2>1 DEF Alone
<1>12. ReadHolds'
  <2>1. \A t, k : ItemsOf(t, k)' = ItemsOf(t, k)
    BY <1>2 DEF ItemsOf
  <2>2. /\ hands'[r].op = "task" => tasks[hands'[r].task].status = hands'[r].seen
        /\ hands'[r].op = "item" /\ hands'[r].kind = "subtask" =>
             \A i \in ItemsOf(hands'[r].task, "subtask") : items[i].position < hands'[r].position
    BY <1>5
  <2>3. ASSUME NEW s \in Hand, hands'[s] # AtRest, ~ hands'[s].raced
        PROVE  /\ hands'[s].op = "task" => tasks[hands'[s].task].status = hands'[s].seen
               /\ hands'[s].op = "item" /\ hands'[s].kind = "subtask" =>
                    \A i \in ItemsOf(hands'[s].task, "subtask") :
                      items[i].position < hands'[s].position
    BY <1>8, <2>2, <2>3
  <2> QED
    BY <1>2, <2>1, <2>3 DEF ReadHolds
<1>13. DeskAddsUp'
  BY <1>2 DEF DeskInv, DeskAddsUp, ItemsOf, LiveTasks, LiveLists
<1> QED
  BY <1>10, <1>11, <1>12, <1>13 DEF DeskInv

\* Who else is in flight when a request ends is marked.
LEMMA FinishInv ==
  ASSUME DeskInv, NEW r \in Hand, hands[r] # AtRest, Finish(r)
  PROVE  /\ hands' \in [Hand -> HandRow \cup {AtRest}]
         /\ \A s \in Hand : hands'[s] = AtRest \/ (hands'[s] = hands[s] /\ hands[s].raced)
         /\ Alone' /\ ReadHolds'
<1>1. hands' = [hands EXCEPT ![r] = AtRest] /\ hands \in [Hand -> HandRow \cup {AtRest}]
  BY DEF Finish, DeskInv, DeskTyped
<1>2. \A s \in Hand : hands'[s] = IF s = r THEN AtRest ELSE hands[s]
  BY <1>1
<1>3. \A s \in Hand \ {r} : hands[s] # AtRest => hands[s].raced
  BY DEF DeskInv, Alone
<1>4. \A s \in Hand : hands'[s] = AtRest \/ (hands'[s] = hands[s] /\ hands[s].raced)
  BY <1>2, <1>3
<1>5. Alone' /\ ReadHolds'
  BY <1>4 DEF Alone, ReadHolds
<1> QED
  BY <1>1, <1>4, <1>5

\* The parts of DeskAddsUp.
Stamps == \A t \in LiveTasks : tasks[t].raced \/ (tasks[t].stamped <=> tasks[t].status = "done")
PositionsApart ==
  \A t \in LiveTasks : \A i, j \in ItemsOf(t, "subtask") :
    i # j /\ items[i].position = items[j].position => items[i].raced \/ items[j].raced
ListsApart == \A l, k \in LiveLists : lists[l].name = lists[k].name => l = k

LEMMA DeskParts == DeskAddsUp <=> Stamps /\ PositionsApart /\ ListsApart
BY DEF DeskAddsUp, Stamps, PositionsApart, ListsApart

LEMMA DeskInvFrom ==
  ASSUME DeskTyped', Alone', ReadHolds', Stamps', PositionsApart', ListsApart'
  PROVE  DeskInv'
BY DEF DeskInv, DeskAddsUp, Stamps, PositionsApart, ListsApart

\* What a request has read is in the tables.
LEMMA HandsFound ==
  ASSUME DeskInv, NEW r \in Hand
  PROVE  /\ hands[r].op \in {"task", "item"} => hands[r] \in HandRow /\ hands[r].task \in DOMAIN tasks
         /\ hands[r].op \in {"list", "unlist", "member"} => hands[r] \in HandRow
         /\ hands[r] # AtRest => hands[r] \in HandRow
<1>1. hands[r] \in HandRow \cup {AtRest}
  BY DEF DeskInv, DeskTyped
<1> QED
  BY <1>1, AtRestIsNoRow DEF HandRow

\* Rows of items that change no more than their tick, or that are deleted.
LEMMA ItemsShrink ==
  ASSUME DOMAIN items' = DOMAIN items,
         \A i \in DOMAIN items : /\ items'[i].position = items[i].position
                                 /\ items'[i].raced = items[i].raced
                                 /\ items'[i].kind = items[i].kind
                                 /\ items'[i].task = items[i].task
                                 /\ items'[i].live => items[i].live
  PROVE  /\ \A t, k : ItemsOf(t, k)' \subseteq ItemsOf(t, k)
         /\ LiveTasks' \subseteq LiveTasks /\ PositionsApart => PositionsApart'
<1>1. \A t, k : ItemsOf(t, k)' \subseteq ItemsOf(t, k)
  BY DEF ItemsOf
<1>2. ASSUME LiveTasks' \subseteq LiveTasks, PositionsApart,
             NEW t \in LiveTasks', NEW i \in ItemsOf(t, "subtask")', NEW j \in ItemsOf(t, "subtask")',
             i # j, items'[i].position = items'[j].position
      PROVE items'[i].raced \/ items'[j].raced
  <2>1. i \in ItemsOf(t, "subtask") /\ j \in ItemsOf(t, "subtask") /\ t \in LiveTasks
    BY <1>1, <1>2
  <2>2. i \in DOMAIN items /\ j \in DOMAIN items
    BY <2>1 DEF ItemsOf
  <2> QED
    BY <1>2, <2>1, <2>2 DEF PositionsApart
<1> QED
  BY <1>1, <1>2 DEF PositionsApart

\* Requests in flight stand still; items only shrink, tasks only change if
\* they go.
LEMMA ReadsStand ==
  ASSUME DeskInv, UNCHANGED hands, DOMAIN tasks \subseteq DOMAIN tasks',
         \A t \in DOMAIN tasks : tasks'[t].live => tasks[t].live /\ tasks'[t].status = tasks[t].status,
         \A t, k : ItemsOf(t, k)' \subseteq ItemsOf(t, k),
         \A i \in DOMAIN items : items'[i].position = items[i].position
  PROVE  Alone' /\ ReadHolds'
<1>1. Alone'
  BY DEF DeskInv, Alone
<1>2. ASSUME NEW r \in Hand, hands[r] # AtRest, ~ hands[r].raced
      PROVE  /\ hands[r].op = "task" /\ tasks'[hands[r].task].live =>
                  tasks'[hands[r].task].status = hands[r].seen
             /\ hands[r].op = "item" /\ hands[r].kind = "subtask" =>
                  \A i \in ItemsOf(hands[r].task, "subtask")' : items'[i].position < hands[r].position
  <2>1. hands[r].op = "task" => hands[r].task \in DOMAIN tasks
    BY HandsFound
  <2>2. \A t : ItemsOf(t, "subtask") \subseteq DOMAIN items
    BY DEF ItemsOf
  <2>3. /\ hands[r].op = "task" /\ tasks[hands[r].task].live =>
             tasks[hands[r].task].status = hands[r].seen
        /\ hands[r].op = "item" /\ hands[r].kind = "subtask" =>
             \A i \in ItemsOf(hands[r].task, "subtask") : items[i].position < hands[r].position
    BY <1>2 DEF DeskInv, ReadHolds
  <2> QED
    BY <2>1, <2>2, <2>3
<1>3. ReadHolds'
  BY <1>2 DEF ReadHolds
<1> QED
  BY <1>1, <1>3

LEMMA CreateTaskInv ==
  ASSUME DeskInv, NEW st \in TaskStatus, CreateTask(st)
  PROVE  DeskInv'
<1> DEFINE row == [status |-> st, stamped |-> st = "done", live |-> TRUE, raced |-> FALSE]
<1>1. /\ tasks' = Append(tasks, row) /\ UNCHANGED <<items, lists, listMembers, hands>>
  BY DEF CreateTask
<1>2. /\ row \in TaskRow /\ row.live /\ (row.stamped <=> row.status = "done")
  BY DEF TaskRow
<1> HIDE DEF row
<1>3. tasks \in Seq(TaskRow) /\ items \in Seq(ItemRow) /\ hands \in [Hand -> HandRow \cup {AtRest}]
  BY DEF DeskInv, DeskTyped
<1>4. /\ tasks' \in Seq(TaskRow) /\ DOMAIN tasks' = DOMAIN tasks \cup {Len(tasks) + 1}
      /\ \A t \in DOMAIN tasks : tasks'[t] = tasks[t]
      /\ tasks'[Len(tasks) + 1] = row
  BY <1>1, <1>2, <1>3
<1>5. LiveTasks' = LiveTasks \cup {Len(tasks) + 1} /\ LiveLists' = LiveLists
  BY <1>1, <1>2, <1>3, <1>4 DEF LiveTasks, LiveLists
<1>6. /\ \A t, k : ItemsOf(t, k)' = ItemsOf(t, k)
      /\ \A i \in DOMAIN items : items[i].live => items[i].task \in LiveTasks
  BY <1>1 DEF ItemsOf, DeskInv, DeskTyped
<1>7. Alone' /\ ReadHolds'
  BY <1>1, <1>4, <1>6, ReadsStand
<1>8. HandRow \subseteq HandRow' /\ ItemRow \subseteq ItemRow'
  BY <1>1, <1>4, RowsGrow
<1>9. items' \in Seq(ItemRow') /\ hands' \in [Hand -> HandRow' \cup {AtRest}]
  BY <1>1, <1>3, <1>8
<1>10. DeskTyped'
  BY <1>1, <1>4, <1>5, <1>6, <1>9 DEF DeskInv, DeskTyped
<1>11. Stamps'
  BY <1>2, <1>4, <1>5, DeskParts DEF Stamps, DeskInv, LiveTasks
<1>12. PositionsApart'
  <2>1. ItemsOf(Len(tasks) + 1, "subtask") = {}
    <3>1. Len(tasks) + 1 \notin DOMAIN tasks
      BY <1>3
    <3> QED
      BY <1>6, <3>1 DEF ItemsOf, LiveTasks
  <2> QED
    BY <1>1, <1>5, <1>6, <2>1, DeskParts DEF PositionsApart, DeskInv
<1>13. ListsApart'
  BY <1>1, <1>5, DeskParts DEF ListsApart, DeskInv
<1> QED
  BY <1>7, <1>10, <1>11, <1>12, <1>13, DeskInvFrom

LEMMA UpdateTaskInv ==
  ASSUME DeskInv, NEW r \in Hand, UpdateTaskCommit(r)
  PROVE  DeskInv'
<1> DEFINE q == hands[r]
           row == [status |-> IF q.status = q.seen THEN tasks[q.task].status ELSE q.status,
                   stamped |-> Stamped(q), live |-> TRUE,
                   raced |-> tasks[q.task].raced \/ q.raced]
<1>1. /\ q.op = "task" /\ q \in HandRow /\ q.task \in DOMAIN tasks /\ tasks[q.task].live
      /\ Finish(r) /\ hands[r] # AtRest /\ UNCHANGED <<items, lists, listMembers>>
  BY HandsFound, AtRestIsNoRow DEF UpdateTaskCommit, LiveTasks
<1>2. /\ q.status \in TaskStatus /\ q.seen \in TaskStatus /\ q.raced \in BOOLEAN
  BY <1>1 DEF HandRow
<1>3. tasks \in Seq(TaskRow) /\ tasks[q.task] \in TaskRow
  BY <1>1 DEF DeskInv, DeskTyped
<1>4. Stamped(q) \in BOOLEAN
  BY <1>3 DEF Stamped, TaskRow
<1>5. row \in TaskRow
  BY <1>2, <1>3, <1>4 DEF TaskRow
<1>6. tasks' = [tasks EXCEPT ![q.task] = row]
  BY DEF UpdateTaskCommit
\* Nobody overlapped: what it saw is the status.
<1>7. ~ q.raced => tasks[q.task].status = q.seen
  BY <1>1 DEF DeskInv, ReadHolds
<1>8. tasks[q.task].raced \/ (tasks[q.task].stamped <=> tasks[q.task].status = "done")
  BY <1>1, DeskParts DEF DeskInv, Stamps, LiveTasks
<1>9. row.live /\ (row.raced \/ (row.stamped <=> row.status = "done"))
  BY <1>1, <1>2, <1>3, <1>7, <1>8 DEF Stamped, TaskRow
<1> HIDE DEF row
<1>10. /\ tasks' \in Seq(TaskRow) /\ DOMAIN tasks' = DOMAIN tasks
       /\ \A t \in DOMAIN tasks : tasks'[t] = IF t = q.task THEN row ELSE tasks[t]
  BY <1>1, <1>3, <1>5, <1>6
<1>11. LiveTasks' = LiveTasks /\ LiveLists' = LiveLists
  BY <1>1, <1>9, <1>10 DEF LiveTasks, LiveLists
<1>12. HandRow \subseteq HandRow' /\ ItemRow \subseteq ItemRow'
  BY <1>1, <1>10, RowsGrow
<1>13. /\ hands' \in [Hand -> HandRow \cup {AtRest}] /\ Alone' /\ ReadHolds'
       /\ \A s \in Hand : hands'[s] = AtRest \/ hands'[s] = hands[s]
  BY <1>1, FinishInv
<1>14. DeskTyped'
  <2>1. hands' \in [Hand -> HandRow' \cup {AtRest}] /\ items' \in Seq(ItemRow')
    BY <1>1, <1>12, <1>13 DEF DeskInv, DeskTyped
  <2>2. \A s \in Hand : hands'[s].op = "item" => hands'[s].position <= Len(items)
    BY <1>13, AtRestIsNoRow DEF DeskInv, DeskTyped
  <2> QED
    BY <1>1, <1>10, <1>11, <2>1, <2>2 DEF DeskInv, DeskTyped
<1>15. Stamps'
  BY <1>9, <1>10, <1>11, DeskParts DEF DeskInv, Stamps, LiveTasks
<1>16. PositionsApart' /\ ListsApart'
  <2>1. \A t, k : ItemsOf(t, k)' = ItemsOf(t, k)
    BY <1>1 DEF ItemsOf
  <2> QED
    BY <1>1, <1>11, <2>1, DeskParts DEF DeskInv, PositionsApart, ListsApart
<1> QED
  BY <1>13, <1>14, <1>15, <1>16, DeskInvFrom

LEMMA DeleteTaskInv ==
  ASSUME DeskInv, NEW t \in DOMAIN tasks, DeleteTask(t)
  PROVE  DeskInv'
<1>1. /\ tasks' = [tasks EXCEPT ![t].live = FALSE]
      /\ items' = [i \in DOMAIN items |->
           IF items[i].task = t THEN [items[i] EXCEPT !.live = FALSE] ELSE items[i]]
      /\ UNCHANGED <<lists, listMembers, hands>>
  BY DEF DeleteTask
<1>2. /\ tasks \in Seq(TaskRow) /\ items \in Seq(ItemRow) /\ hands \in [Hand -> HandRow \cup {AtRest}]
      /\ \A i \in DOMAIN items : items[i] \in ItemRow
  BY DEF DeskInv, DeskTyped
<1>3. /\ tasks' \in Seq(TaskRow) /\ DOMAIN tasks' = DOMAIN tasks /\ ~ tasks'[t].live
      /\ \A u \in DOMAIN tasks \ {t} : tasks'[u] = tasks[u]
  <2>1. tasks[t] \in TaskRow
    BY <1>2
  <2>2. [tasks[t] EXCEPT !.live = FALSE] \in TaskRow /\ ~ [tasks[t] EXCEPT !.live = FALSE].live
    BY <2>1 DEF TaskRow
  <2>3. PICK row \in TaskRow : row = [tasks[t] EXCEPT !.live = FALSE]
    BY <2>2
  <2>4. tasks' = [tasks EXCEPT ![t] = row]
    BY <1>1, <2>3
  <2> QED
    <3>1. row.live = FALSE
      BY <2>2, <2>3
    <3> QED
      BY <1>2, <2>4, <3>1
<1>4. /\ DOMAIN items' = DOMAIN items /\ items' \in Seq(ItemRow) /\ Len(items') = Len(items)
      /\ \A i \in DOMAIN items : items'[i].live => items'[i] = items[i] /\ items[i].task # t
      /\ \A i \in DOMAIN items : /\ items'[i].position = items[i].position
                                 /\ items'[i].raced = items[i].raced
                                 /\ items'[i].kind = items[i].kind
                                 /\ items'[i].task = items[i].task
  <2>1. \A i \in DOMAIN items : items'[i] \in ItemRow
    BY <1>1, <1>2 DEF ItemRow
  <2>2. DOMAIN items' = DOMAIN items /\ items' \in Seq(ItemRow) /\ Len(items') = Len(items)
    BY <1>1, <1>2, <2>1
  <2>3. ASSUME NEW i \in DOMAIN items
        PROVE  /\ items'[i].live => items'[i] = items[i] /\ items[i].task # t
               /\ items'[i].position = items[i].position /\ items'[i].raced = items[i].raced
               /\ items'[i].kind = items[i].kind /\ items'[i].task = items[i].task
    BY <1>1, <1>2 DEF ItemRow
  <2> QED
    BY <2>2, <2>3
<1>5. LiveTasks' = LiveTasks \ {t} /\ LiveLists' = LiveLists
  BY <1>1, <1>3 DEF LiveTasks, LiveLists
<1>6. /\ \A u, k : ItemsOf(u, k)' \subseteq ItemsOf(u, k)
      /\ PositionsApart'
  BY <1>4, <1>5, ItemsShrink, DeskParts DEF DeskInv
<1>7. Alone' /\ ReadHolds'
  BY <1>1, <1>3, <1>4, <1>6, ReadsStand
<1>8. DeskTyped'
  <2>1. HandRow \subseteq HandRow' /\ ItemRow \subseteq ItemRow'
    BY <1>1, <1>3, RowsGrow
  <2>2. items' \in Seq(ItemRow') /\ hands' \in [Hand -> HandRow' \cup {AtRest}]
    BY <1>1, <1>2, <1>4, <2>1
  <2>3. \A i \in DOMAIN items' : /\ items'[i].position < i
                                 /\ items'[i].live => items'[i].task \in LiveTasks'
    BY <1>4, <1>5 DEF DeskInv, DeskTyped
  <2> QED
    BY <1>1, <1>3, <1>4, <1>5, <2>2, <2>3 DEF DeskInv, DeskTyped
<1>9. Stamps' /\ ListsApart'
  BY <1>1, <1>3, <1>5, DeskParts DEF DeskInv, Stamps, ListsApart, LiveTasks
<1> QED
  BY <1>6, <1>7, <1>8, <1>9, DeskInvFrom

\* An item is changed in its tick, or deleted.
LEMMA ItemChanged ==
  ASSUME DeskInv, NEW i \in DOMAIN items, NEW row \in ItemRow,
         items' = [items EXCEPT ![i] = row],
         row.position = items[i].position, row.raced = items[i].raced,
         row.kind = items[i].kind, row.task = items[i].task, row.live => items[i].live,
         UNCHANGED <<tasks, lists, listMembers, hands>>
  PROVE  DeskInv'
<1>1. /\ items \in Seq(ItemRow) /\ \A j \in DOMAIN items : items[j].live => items[j].task \in LiveTasks
      /\ \A j \in DOMAIN items : items[j].position < j
      /\ \A j \in DOMAIN items : items[j] \in ItemRow
  BY DEF DeskInv, DeskTyped
<1>2. /\ items' \in Seq(ItemRow) /\ DOMAIN items' = DOMAIN items /\ Len(items') = Len(items)
      /\ items'[i] = row /\ \A j \in DOMAIN items \ {i} : items'[j] = items[j]
  BY <1>1
<1>3. \A j \in DOMAIN items : /\ items'[j].position = items[j].position
                              /\ items'[j].raced = items[j].raced
                              /\ items'[j].kind = items[j].kind
                              /\ items'[j].task = items[j].task
                              /\ items'[j].live => items[j].live
  BY <1>2
<1>4. LiveTasks' = LiveTasks /\ LiveLists' = LiveLists
  BY DEF LiveTasks, LiveLists
<1>5. /\ \A u, k : ItemsOf(u, k)' \subseteq ItemsOf(u, k)
      /\ PositionsApart'
  BY <1>2, <1>3, <1>4, ItemsShrink, DeskParts DEF DeskInv
<1>6. \A t \in DOMAIN tasks : tasks'[t].live => tasks[t].live /\ tasks'[t].status = tasks[t].status
  OBVIOUS
<1>7. Alone' /\ ReadHolds'
  BY <1>2, <1>3, <1>5, <1>6, ReadsStand
<1>8. DeskTyped'
  <2>1. HandRow' = HandRow /\ ItemRow' = ItemRow
    BY DEF HandRow, ItemRow
  <2>2. \A j \in DOMAIN items' : /\ items'[j].position < j
                                 /\ items'[j].live => items'[j].task \in LiveTasks'
    BY <1>1, <1>2, <1>3, <1>4
  <2> QED
    BY <1>2, <1>4, <2>1, <2>2 DEF DeskInv, DeskTyped
<1>9. Stamps' /\ ListsApart'
  BY <1>4, DeskParts DEF DeskInv, Stamps, ListsApart
<1> QED
  BY <1>5, <1>7, <1>8, <1>9, DeskInvFrom

LEMMA TickSubtaskInv ==
  ASSUME DeskInv, NEW i \in DOMAIN items, NEW b \in BOOLEAN, TickSubtask(i, b)
  PROVE  DeskInv'
<1>1. items[i] \in ItemRow /\ items \in Seq(ItemRow)
  BY DEF DeskInv, DeskTyped
<1>2. PICK row : row = [items[i] EXCEPT !.ticked = b]
  OBVIOUS
<1>3. /\ row \in ItemRow /\ row.position = items[i].position /\ row.raced = items[i].raced
      /\ row.kind = items[i].kind /\ row.task = items[i].task /\ row.live = items[i].live
  BY <1>1, <1>2 DEF ItemRow
<1>4. items' = [items EXCEPT ![i] = row] /\ UNCHANGED <<tasks, lists, listMembers, hands>>
  BY <1>2 DEF TickSubtask
<1> QED
  BY <1>3, <1>4, ItemChanged

LEMMA DeleteItemInv ==
  ASSUME DeskInv, NEW i \in DOMAIN items, DeleteItem(i)
  PROVE  DeskInv'
<1>1. items[i] \in ItemRow /\ items \in Seq(ItemRow)
  BY DEF DeskInv, DeskTyped
<1>2. PICK row : row = [items[i] EXCEPT !.live = FALSE]
  OBVIOUS
<1>3. /\ row \in ItemRow /\ row.position = items[i].position /\ row.raced = items[i].raced
      /\ row.kind = items[i].kind /\ row.task = items[i].task /\ row.live = FALSE
  BY <1>1, <1>2 DEF ItemRow
<1>4. items' = [items EXCEPT ![i] = row] /\ UNCHANGED <<tasks, lists, listMembers, hands>>
  BY <1>2 DEF DeleteItem
<1> QED
  BY <1>3, <1>4, ItemChanged

LEMMA AddItemInv ==
  ASSUME DeskInv, NEW r \in Hand, AddItemCommit(r)
  PROVE  DeskInv'
<1>1. PICK q : q = hands[r]
  OBVIOUS
<1>2. PICK row : row = [task |-> q.task, kind |-> q.kind, position |-> q.position,
                        ticked |-> FALSE, live |-> TRUE, raced |-> q.raced]
  OBVIOUS
<1>3. /\ q.op = "item" /\ q \in HandRow /\ q # AtRest
      /\ q.task \in LiveTasks /\ items' = Append(items, row)
      /\ Finish(r) /\ UNCHANGED <<tasks, lists, listMembers>>
  BY <1>1, <1>2, HandsFound, AtRestIsNoRow DEF AddItemCommit
<1>4. /\ q.task \in DOMAIN tasks /\ q.kind \in {"subtask", "comment"} /\ q.position \in Nat
      /\ q.raced \in BOOLEAN /\ q.position <= Len(items)
  BY <1>1, <1>3 DEF HandRow, DeskInv, DeskTyped
<1>5. /\ row \in ItemRow /\ row.position = q.position /\ row.raced = q.raced /\ row.live
      /\ row.kind = q.kind /\ row.task = q.task
  BY <1>2, <1>4 DEF ItemRow
<1>6. items \in Seq(ItemRow) /\ Len(items) \in Nat
  BY DEF DeskInv, DeskTyped
<1>7. PICK n \in Nat : n = Len(items) + 1
  BY <1>6
<1>8. /\ items' \in Seq(ItemRow) /\ DOMAIN items' = DOMAIN items \cup {n} /\ Len(items') = n
      /\ n \notin DOMAIN items /\ items'[n] = row
      /\ \A j \in DOMAIN items : items'[j] = items[j]
  BY <1>3, <1>5, <1>6, <1>7
<1>9. LiveTasks' = LiveTasks /\ LiveLists' = LiveLists
  BY <1>3 DEF LiveTasks, LiveLists
<1>10. /\ hands' \in [Hand -> HandRow \cup {AtRest}] /\ Alone' /\ ReadHolds'
       /\ \A s \in Hand : hands'[s] = AtRest \/ hands'[s] = hands[s]
  BY <1>1, <1>3, FinishInv
<1>11. DeskTyped'
  <2>1. HandRow' = HandRow /\ ItemRow' = ItemRow
    BY <1>3 DEF HandRow, ItemRow
  <2>2. \A j \in DOMAIN items' : /\ items'[j].position < j
                                 /\ items'[j].live => items'[j].task \in LiveTasks'
    <3>1. /\ items'[n].position < n
          /\ items'[n].live => items'[n].task \in LiveTasks'
      BY <1>3, <1>4, <1>5, <1>6, <1>7, <1>8, <1>9
    <3>2. \A j \in DOMAIN items : /\ items'[j].position < j
                                  /\ items'[j].live => items'[j].task \in LiveTasks'
      BY <1>8, <1>9 DEF DeskInv, DeskTyped
    <3> QED
      BY <1>8, <3>1, <3>2
  <2>3. \A s \in Hand : hands'[s].op = "item" => hands'[s].position <= Len(items')
    <3>1. ASSUME NEW s \in Hand, hands'[s].op = "item"
          PROVE hands'[s].position <= Len(items')
      <4>1. hands'[s] = hands[s] /\ hands[s].op = "item"
        BY <1>10, <3>1, AtRestIsNoRow
      <4>2. hands[s] \in HandRow
        BY <4>1, HandsFound
      <4>3. hands[s].position \in Nat /\ hands[s].position <= Len(items)
        BY <4>1, <4>2 DEF HandRow, DeskInv, DeskTyped
      <4> QED
        BY <1>6, <1>7, <1>8, <4>1, <4>3
    <3> QED
      BY <3>1
  <2> QED
    BY <1>3, <1>8, <1>9, <1>10, <2>1, <2>2, <2>3 DEF DeskInv, DeskTyped
\* Nobody overlapped: the position is above those there are.
<1>12. PositionsApart'
  <2>1. ASSUME NEW t \in LiveTasks, NEW i \in ItemsOf(t, "subtask")', i # n
        PROVE  i \in ItemsOf(t, "subtask") /\ items'[i] = items[i] /\ items[i].position \in Nat
    <3>1. i \in DOMAIN items /\ items'[i] = items[i]
      BY <1>8, <2>1 DEF ItemsOf
    <3>2. items[i] \in ItemRow
      BY <1>6, <3>1
    <3> QED
      BY <2>1, <3>1, <3>2 DEF ItemsOf, ItemRow
  <2>2. ASSUME NEW t \in LiveTasks, n \in ItemsOf(t, "subtask")', ~ row.raced,
               NEW i \in ItemsOf(t, "subtask")', i # n
        PROVE  items'[i].position < row.position
    <3>1. row.kind = "subtask" /\ row.task = t
      BY <1>8, <2>2 DEF ItemsOf
    <3>2. i \in ItemsOf(t, "subtask") /\ items'[i] = items[i]
      BY <2>1, <2>2
    <3>3. \A j \in ItemsOf(q.task, "subtask") : items[j].position < q.position
      BY <1>1, <1>3, <1>5, <2>2, <3>1 DEF DeskInv, ReadHolds
    <3> QED
      BY <1>5, <3>1, <3>2, <3>3
  <2>3. ASSUME NEW t \in LiveTasks, NEW i \in ItemsOf(t, "subtask")', NEW j \in ItemsOf(t, "subtask")',
               i # j, items'[i].position = items'[j].position
        PROVE  items'[i].raced \/ items'[j].raced
    <3>1. CASE i # n /\ j # n
      BY <2>1, <2>3, <3>1, DeskParts DEF DeskInv, PositionsApart
    <3>2. CASE i = n
      <4>1. items'[i] = row /\ items'[j].position \in Nat /\ j # n
        BY <1>8, <2>1, <2>3, <3>2
      <4>2. ~ row.raced => items'[j].position < row.position
        BY <2>2, <2>3, <3>2, <4>1
      <4> QED
        BY <2>3, <4>1, <4>2
    <3>3. CASE j = n
      <4>1. items'[j] = row /\ items'[i].position \in Nat /\ i # n
        BY <1>8, <2>1, <2>3, <3>3
      <4>2. ~ row.raced => items'[i].position < row.position
        BY <2>2, <2>3, <3>3, <4>1
      <4> QED
        BY <2>3, <4>1, <4>2
    <3> QED
      BY <3>1, <3>2, <3>3
  <2> QED
    BY <1>9, <2>3 DEF PositionsApart
<1>13. Stamps' /\ ListsApart'
  BY <1>3, <1>9, DeskParts DEF DeskInv, Stamps, ListsApart
<1> QED
  BY <1>10, <1>11, <1>12, <1>13, DeskInvFrom

LEMMA DeskReadsInv ==
  ASSUME DeskInv, NEW r \in Hand,
         \/ \E t \in DOMAIN tasks :
              \/ \E st \in TaskStatus : UpdateTaskRead(r, t, st)
              \/ \E kind \in {"subtask", "comment"} : AddItemRead(r, t, kind)
         \/ \E n \in ListName : CreateListRead(r, n)
         \/ \E l \in DOMAIN lists : DeleteListRead(r, l) \/ \E u \in Reader : AddMemberRead(r, l, u)
  PROVE  DeskInv'
<1>1. ASSUME NEW t \in DOMAIN tasks, NEW st \in TaskStatus, UpdateTaskRead(r, t, st)
      PROVE DeskInv'
  <2>1. PICK q : q = [op |-> "task", task |-> t, status |-> st, seen |-> tasks[t].status,
                      raced |-> FALSE]
    OBVIOUS
  <2>2. tasks[t] \in TaskRow
    BY DEF DeskInv, DeskTyped
  <2>3. q \in HandRow /\ q.op = "task" /\ q.task = t /\ q.seen = tasks[t].status
    BY <2>1, <2>2 DEF HandRow, TaskRow
  <2>4. Handle(r, q)
    BY <1>1, <2>1 DEF UpdateTaskRead
  <2> QED
    BY <2>3, <2>4, HandleInv
<1>2. ASSUME NEW t \in DOMAIN tasks, NEW kind \in {"subtask", "comment"}, AddItemRead(r, t, kind)
      PROVE DeskInv'
  <2>1. PICK p : p = IF kind = "subtask" THEN NextPosition(t) ELSE 0
    OBVIOUS
  <2>2. PICK q : q = [op |-> "item", task |-> t, kind |-> kind, raced |-> FALSE, position |-> p]
    OBVIOUS
  <2>3. /\ p \in 0..Len(items)
        /\ kind = "subtask" => \A i \in ItemsOf(t, "subtask") : items[i].position < p
    <3>1. DeskTyped /\ Len(items) \in Nat
      BY DEF DeskInv, DeskTyped
    <3> QED
      BY <2>1, <3>1, NextIsFree
  <2>4. q \in HandRow /\ q.op = "item" /\ q.task = t /\ q.kind = kind /\ q.position = p
    BY <2>2, <2>3 DEF HandRow
  <2>5. Handle(r, q)
    BY <1>2, <2>1, <2>2 DEF AddItemRead
  <2> QED
    BY <2>3, <2>4, <2>5, HandleInv
<1>3. ASSUME NEW n \in ListName, CreateListRead(r, n) PROVE DeskInv'
  <2>1. PICK q : q = [op |-> "list", name |-> n, raced |-> FALSE]
    OBVIOUS
  <2>2. q \in HandRow /\ q.op = "list" /\ Handle(r, q)
    BY <1>3, <2>1 DEF HandRow, CreateListRead
  <2> QED
    BY <2>2, HandleInv
<1>4. ASSUME NEW l \in DOMAIN lists, DeleteListRead(r, l) PROVE DeskInv'
  <2>1. PICK q : q = [op |-> "unlist", list |-> l, raced |-> FALSE,
                      swept |-> {m \in listMembers : m[1] = l}]
    OBVIOUS
  <2>2. {m \in listMembers : m[1] = l} \in SUBSET ((DOMAIN lists) \X Reader)
    BY DEF DeskInv, DeskTyped, LiveLists
  <2>3. q \in HandRow /\ q.op = "unlist"
    BY <2>1, <2>2 DEF HandRow
  <2>4. Handle(r, q)
    BY <1>4, <2>1 DEF DeleteListRead
  <2> QED
    BY <2>3, <2>4, HandleInv
<1>5. ASSUME NEW l \in DOMAIN lists, NEW u \in Reader, AddMemberRead(r, l, u) PROVE DeskInv'
  <2>1. PICK q : q = [op |-> "member", list |-> l, reader |-> u, raced |-> FALSE]
    OBVIOUS
  <2>2. q \in HandRow /\ q.op = "member" /\ Handle(r, q)
    BY <1>5, <2>1 DEF HandRow, AddMemberRead
  <2> QED
    BY <2>2, HandleInv
<1> QED
  BY <1>1, <1>2, <1>3, <1>4, <1>5

\* The tasks stand still, the lists have what they had and what is said here.
LEMMA ListsChanged ==
  ASSUME DeskInv, UNCHANGED <<tasks, items>>,
         hands' \in [Hand -> HandRow \cup {AtRest}],
         \A s \in Hand : hands'[s] = AtRest \/ hands'[s] = hands[s],
         Alone', ReadHolds',
         lists' \in Seq(ListRow), DOMAIN lists \subseteq DOMAIN lists',
         listMembers' \subseteq LiveLists' \X Reader, ListsApart'
  PROVE  DeskInv'
<1>1. LiveTasks' = LiveTasks
  BY DEF LiveTasks
<1>2. HandRow \subseteq HandRow' /\ ItemRow \subseteq ItemRow'
  BY RowsGrow
<1>3. \A s \in Hand : hands'[s].op = "item" => hands'[s].position <= Len(items)
  BY AtRestIsNoRow DEF DeskInv, DeskTyped
<1>4. hands' \in [Hand -> HandRow' \cup {AtRest}]
  BY <1>2
<1>5. DeskTyped'
  BY <1>1, <1>3, <1>4 DEF DeskInv, DeskTyped, ItemRow
<1>6. Stamps' /\ PositionsApart'
  BY <1>1, DeskParts DEF DeskInv, Stamps, PositionsApart, ItemsOf
<1> QED
  BY <1>5, <1>6, DeskInvFrom

LEMMA CreateListInv ==
  ASSUME DeskInv, NEW r \in Hand, CreateListCommit(r)
  PROVE  DeskInv'
<1>1. PICK row : row = [name |-> hands[r].name, live |-> TRUE]
  OBVIOUS
<1>2. /\ hands[r].op = "list" /\ hands[r] # AtRest /\ hands[r] \in HandRow
      /\ lists' = Append(lists, row) /\ Finish(r) /\ UNCHANGED <<tasks, items, listMembers>>
      /\ \A l \in LiveLists : lists[l].name # row.name
  BY <1>1, HandsFound, AtRestIsNoRow DEF CreateListCommit, Named
<1>3. row \in ListRow /\ row.live
  BY <1>1, <1>2 DEF HandRow, ListRow
<1>4. lists \in Seq(ListRow)
  BY DEF DeskInv, DeskTyped
<1>5. /\ lists' \in Seq(ListRow) /\ DOMAIN lists' = DOMAIN lists \cup {Len(lists) + 1}
      /\ \A l \in DOMAIN lists : lists'[l] = lists[l]
      /\ lists'[Len(lists) + 1] = row
  BY <1>2, <1>3, <1>4
<1>6. LiveLists' = LiveLists \cup {Len(lists) + 1}
  BY <1>3, <1>4, <1>5 DEF LiveLists
<1>7. listMembers' \subseteq LiveLists' \X Reader
  BY <1>2, <1>6 DEF DeskInv, DeskTyped
<1>8. ListsApart'
  <2>1. \A l \in LiveLists : lists'[l] = lists[l]
    BY <1>5 DEF LiveLists
  <2>2. PICK n : n = Len(lists) + 1
    OBVIOUS
  <2>3. LiveLists' = LiveLists \cup {n} /\ lists'[n].name = row.name
    BY <1>5, <1>6, <2>2
  <2>4. \A l, k \in LiveLists : lists[l].name = lists[k].name => l = k
    BY DeskParts DEF DeskInv, ListsApart
  <2>5. \A l, k \in LiveLists' : lists'[l].name = lists'[k].name => l = k
    <3>1. \A l \in LiveLists : lists'[l].name = lists[l].name /\ lists[l].name # row.name
      BY <1>2, <2>1
    <3> QED
      BY <2>3, <2>4, <3>1
  <2> QED
    BY <2>5 DEF ListsApart
<1>9. /\ hands' \in [Hand -> HandRow \cup {AtRest}] /\ Alone' /\ ReadHolds'
      /\ \A s \in Hand : hands'[s] = AtRest \/ hands'[s] = hands[s]
  BY <1>2, FinishInv
<1> QED
  BY <1>2, <1>5, <1>7, <1>8, <1>9, ListsChanged

LEMMA DeleteListInv ==
  ASSUME DeskInv, NEW r \in Hand, DeleteListCommit(r)
  PROVE  DeskInv'
<1>1. PICK l, S : l = hands[r].list /\ S = hands[r].swept
  OBVIOUS
<1>2. /\ hands[r].op = "unlist" /\ hands[r] # AtRest
      /\ l \in LiveLists /\ {m \in listMembers : m[1] = l} \subseteq S
      /\ lists' = [lists EXCEPT ![l].live = FALSE] /\ listMembers' = listMembers \ S
      /\ Finish(r) /\ UNCHANGED <<tasks, items>>
  BY <1>1, AtRestIsNoRow DEF DeleteListCommit
<1>3. lists \in Seq(ListRow) /\ l \in DOMAIN lists /\ lists[l] \in ListRow
  BY <1>2 DEF DeskInv, DeskTyped, LiveLists
<1>4. PICK row : row = [lists[l] EXCEPT !.live = FALSE]
  OBVIOUS
<1>5. row \in ListRow /\ row.live = FALSE
  BY <1>3, <1>4 DEF ListRow
<1>6. lists' = [lists EXCEPT ![l] = row]
  BY <1>2, <1>4
<1>7. /\ lists' \in Seq(ListRow) /\ DOMAIN lists' = DOMAIN lists /\ ~ lists'[l].live
      /\ \A k \in DOMAIN lists \ {l} : lists'[k] = lists[k]
  BY <1>3, <1>5, <1>6
<1>8. LiveLists' = LiveLists \ {l}
  BY <1>7 DEF LiveLists
<1>9. listMembers' \subseteq LiveLists' \X Reader
  BY <1>2, <1>8 DEF DeskInv, DeskTyped
<1>10. ListsApart'
  <2>1. \A k \in LiveLists' : k \in LiveLists /\ lists'[k] = lists[k]
    <3>1. \A k \in LiveLists : k \in DOMAIN lists
      BY DEF LiveLists
    <3> QED
      BY <1>7, <1>8, <3>1
  <2> QED
    BY <2>1, DeskParts DEF DeskInv, ListsApart
<1>11. /\ hands' \in [Hand -> HandRow \cup {AtRest}] /\ Alone' /\ ReadHolds'
       /\ \A s \in Hand : hands'[s] = AtRest \/ hands'[s] = hands[s]
  BY <1>2, FinishInv
<1> QED
  BY <1>2, <1>7, <1>9, <1>10, <1>11, ListsChanged

LEMMA MembersOfListInv ==
  ASSUME DeskInv, NEW r \in Hand, AddMemberCommit(r)
  PROVE  DeskInv'
<1>1. /\ hands[r].op = "member" /\ hands[r] # AtRest /\ hands[r] \in HandRow
      /\ hands[r].list \in LiveLists
      /\ listMembers' = listMembers \cup {<<hands[r].list, hands[r].reader>>}
      /\ Finish(r) /\ UNCHANGED <<tasks, items, lists>>
  BY HandsFound, AtRestIsNoRow DEF AddMemberCommit
<1>2. hands[r].reader \in Reader
  BY <1>1 DEF HandRow
<1>3. LiveLists' = LiveLists
  BY <1>1 DEF LiveLists
<1>4. listMembers' \subseteq LiveLists' \X Reader /\ lists \in Seq(ListRow)
  BY <1>1, <1>2, <1>3 DEF DeskInv, DeskTyped
<1>5. ListsApart'
  BY <1>1, <1>3, DeskParts DEF DeskInv, ListsApart
<1>6. /\ hands' \in [Hand -> HandRow \cup {AtRest}] /\ Alone' /\ ReadHolds'
      /\ \A s \in Hand : hands'[s] = AtRest \/ hands'[s] = hands[s]
  BY <1>1, FinishInv
<1> QED
  BY <1>1, <1>4, <1>5, <1>6, ListsChanged

\* Nothing but who is a member of a list changes, and nobody is added.
LEMMA FewerMembersInv ==
  ASSUME DeskInv, UNCHANGED <<tasks, items, lists>>, listMembers' \subseteq listMembers,
         \/ UNCHANGED hands
         \/ \E r \in Hand : hands[r] # AtRest /\ Finish(r)
  PROVE  DeskInv'
<1>1. LiveLists' = LiveLists
  BY DEF LiveLists
<1>2. listMembers' \subseteq LiveLists' \X Reader /\ lists \in Seq(ListRow)
  BY <1>1 DEF DeskInv, DeskTyped
<1>3. ListsApart'
  BY <1>1, DeskParts DEF DeskInv, ListsApart
<1>4. /\ hands' \in [Hand -> HandRow \cup {AtRest}] /\ Alone' /\ ReadHolds'
      /\ \A s \in Hand : hands'[s] = AtRest \/ hands'[s] = hands[s]
  <2>1. CASE UNCHANGED hands
    BY <2>1 DEF DeskInv, DeskTyped, Alone, ReadHolds, ItemsOf
  <2>2. CASE \E r \in Hand : hands[r] # AtRest /\ Finish(r)
    BY <2>2, FinishInv
  <2> QED
    BY <2>1, <2>2
<1> QED
  BY <1>2, <1>3, <1>4, ListsChanged

LEMMA DeskNextInv ==
  ASSUME DeskInv, [TasksNext \/ MailingListsNext]_deskTableVars
  PROVE  DeskInv'
<1>1. ASSUME NEW r \in Hand, GiveUp(r) PROVE DeskInv'
  <2>1. hands[r] # AtRest /\ Finish(r) /\ UNCHANGED <<tasks, items, lists, listMembers>>
    BY <1>1 DEF GiveUp
  <2> QED
    BY <2>1, FewerMembersInv
<1>2. ASSUME NEW m, RemoveMember(m) PROVE DeskInv'
  <2>1. listMembers' \subseteq listMembers /\ UNCHANGED <<tasks, items, lists, hands>>
    BY <1>2 DEF RemoveMember
  <2> QED
    BY <2>1, FewerMembersInv
<1>3. CASE UNCHANGED deskTableVars
  <2>1. UNCHANGED <<tasks, items, lists, listMembers, hands>>
    BY <1>3 DEF deskTableVars
  <2> QED
    BY <2>1, FewerMembersInv
<1>4. CASE TasksNext
  BY <1>1, <1>4, DeskReadsInv, CreateTaskInv, DeleteTaskInv, DeleteItemInv, TickSubtaskInv,
     UpdateTaskInv, AddItemInv DEF TasksNext
<1>5. CASE MailingListsNext
  BY <1>1, <1>2, <1>5, DeskReadsInv, CreateListInv, DeleteListInv, MembersOfListInv
  DEF MailingListsNext
<1> QED
  BY <1>3, <1>4, <1>5

-----------------------------------------------------------------------------
(* Each part by itself *)

\* No two organizations, deleted ones included, share a slug or a subdomain,
\* however the requests that create them overlapped.
THEOREM NamesStayApart == AdminOrgsSpec => [](AdminOrgsTypeOK /\ NamesApart)
<1>1. OrgsInv => AdminOrgsTypeOK /\ NamesApart
  BY DEF OrgsInv
<1> QED
  BY <1>1, OrgsInitInv, OrgsNextInv, PTL DEF AdminOrgsSpec

\* Read from its first entry, the audit trail tells the status of every
\* organization, who administers it and which invites were sent.
THEOREM TrailAlwaysReplays == AdminOrgsSpec => []TrailReplays
<1>1. OrgsInv => TrailReplays
  BY DEF OrgsInv
<1> QED
  BY <1>1, OrgsInitInv, OrgsNextInv, PTL DEF AdminOrgsSpec

\* The desk's tables: a task has a time of completion just when it is done and
\* its subtasks have positions of their own, save by requests that overlapped;
\* a mailing list is the only one of its name, whatever overlapped.
THEOREM DeskAlwaysAddsUp == AdminDeskSpec => [](AdminDeskTypeOK /\ DeskAddsUp)
<1>1. DeskInv => AdminDeskTypeOK /\ DeskAddsUp
  BY DeskTypes DEF DeskInv
<1> QED
  BY <1>1, DeskInitInv, DeskNextInv, PTL DEF AdminDeskSpec

\* For any regions, branches, teams and programs, the pages of a manager whose
\* place was not deleted agree, what is narrowed by a region or a branch stays
\* in it, and a program manager's messages are not narrowed at all.
THEOREM ScopesAlwaysAgree == OrgStructureSpec => [](OrgStructureTypeOK /\ ScopesAgree)
BY StructureInitInv, StructureNextInv, StructureTyped, StructureAgrees, PTL DEF OrgStructureSpec

\* For any number of organizations and memberships, no redirect loops but for a
\* user whose one membership is not the one in the cookie.
THEOREM LoopsOnlyOfTheMoved == OrgPagesSpec => [](OrgPagesTypeOK /\ OnlyMovedUsersLoop)
BY PagesInitInv, PagesNextInv, PagesTyped, LowerRank, PTL DEF OrgPagesSpec

-----------------------------------------------------------------------------
(* The parts side by side: a step of the whole is a step of each part, or    *)
(* leaves it alone, so that what holds of a part by itself holds in the      *)
(* whole.                                                                    *)

LEMMA PartsInit ==
  WorkspaceInit => /\ Init /\ OrgMembersInit /\ OrgStructureInit /\ OrgPagesInit
                   /\ AdminOrgsInit /\ AdminDeskInit /\ part \in Part
BY DEF WorkspaceInit

LEMMA PartsNext ==
  ASSUME [WorkspaceNext]_workspaceVars
  PROVE  /\ [Next]_vars /\ [OrgMembersNext]_orgMemberVars
         /\ [OrgStructureNext]_orgStructureVars /\ [OrgPagesNext]_orgPagesVars
         /\ [AdminOrgsNext]_adminOrgVars /\ [TasksNext \/ MailingListsNext]_deskTableVars
         /\ UNCHANGED part
         /\ part = "serial" => [Next /\ OneAtATime']_vars
<1>1. CASE UNCHANGED workspaceVars
  BY <1>1 DEF workspaceVars
<1>2. CASE WorkspaceNext
  <2>1. MoveSigning => Next /\ (part = "serial" => OneAtATime')
    BY DEF MoveSigning, OneRequest, OneAtATime
  <2>2. MoveMembers => OrgMembersNext
    <3>1. \A t \in BOOLEAN : /\ InvitesNext(Managing, t) => InvitesNext(Role, t)
                             /\ InvitesNext({"coach"}, t) => InvitesNext(Role, t)
      BY OrgMembersAssumption DEF InvitesNext, Managing
    <3>2. MembersNext(Managing) => MembersNext(Role)
      BY DEF MembersNext, Managing
    <3> QED
      BY <3>1, <3>2 DEF MoveMembers, OrgMembersNext
  <2>3. /\ MoveStructure => OrgStructureNext
        /\ MovePages => OrgPagesNext
        /\ MoveOrgs => AdminOrgsNext
        /\ MoveAdminDesk => TasksNext \/ MailingListsNext
    BY DEF MoveStructure, MovePages, MoveOrgs, AdminOrgsNext, MoveAdminDesk
  <2> QED
    BY <1>2, <2>1, <2>2, <2>3 DEF WorkspaceNext
<1> QED
  BY <1>1, <1>2

LEMMA PartsObey ==
  WorkspaceSpec => /\ Spec /\ OrgMembersSpec /\ OrgStructureSpec /\ OrgPagesSpec
                   /\ AdminOrgsSpec /\ AdminDeskSpec
BY PartsInit, PartsNext, PTL
DEF WorkspaceSpec, Spec, OrgMembersSpec, OrgStructureSpec, OrgPagesSpec, AdminOrgsSpec, AdminDeskSpec

\* The part that was chosen stays, and requests that do not overlap obey what
\* was proved of them.
LEMMA SerialObeys ==
  WorkspaceSpec => /\ [](part \in Part)
                   /\ \/ [](part = "serial") /\ SerialSpec
                      \/ [](~ (part = "serial"))
<1>1. WorkspaceInit => Init /\ part \in Part
  BY PartsInit
<1>2. [WorkspaceNext]_workspaceVars =>
        /\ part \in Part => (part \in Part)'
        /\ part = "serial" => (part = "serial")' /\ [Next /\ OneAtATime']_vars
        /\ ~ (part = "serial") => (~ (part = "serial"))'
  BY PartsNext
<1> QED
  BY <1>1, <1>2, PTL DEF WorkspaceSpec, SerialSpec

\* The type of the part that moves, and of the others, which stand still.
THEOREM WorkspaceTyped == WorkspaceSpec => []WorkspaceTypeOK
<1>1. /\ TypeOK /\ OrgStructureTypeOK /\ OrgPagesTypeOK /\ AdminOrgsTypeOK
      /\ AdminDeskTypeOK /\ OrgMembersTypeOK /\ part \in Part
      => WorkspaceTypeOK
  BY DEF WorkspaceTypeOK, Part
<1> QED
  BY <1>1, PartsObey, SerialObeys, TypeCorrect, MembersTyped, ScopesAlwaysAgree,
     LoopsOnlyOfTheMoved, NamesStayApart, DeskAlwaysAddsUp, PTL

\* An organization keeps an administrator, and what the system administrator
\* does is told, named and kept apart, for any number of organizations,
\* accounts, tasks, lists and requests.
THEOREM AdministrationAlwaysHolds == WorkspaceSpec => []AdministrationHolds
<1>1. OrgKeepsAdmin /\ TrailReplays /\ NamesApart /\ DeskAddsUp => AdministrationHolds
  BY DEF AdministrationHolds
<1> QED
  BY <1>1, PartsObey, AdminsStay, TrailAlwaysReplays, NamesStayApart, DeskAlwaysAddsUp, PTL

\* As long as requests do not overlap, counters are exact and the verifier
\* accepts what was signed by ascending id, if fewer rows than the lookback
\* are from before the chain.
THEOREM ExactUnlessOverlapped ==
  ASSUME FewPreChain
  PROVE  WorkspaceSpec => []ExactWithoutOverlap
<1>1. (part = "serial" => TotalSignedIsExact /\ ChainVerifiesInIdOrder) => ExactWithoutOverlap
  BY DEF ExactWithoutOverlap
<1>2. SerialSpec => [](TotalSignedIsExact /\ ChainVerifiesInIdOrder)
  BY FewPreChain, CounterExactWithoutOverlap, ChainVerifiesWithoutOverlap, PTL
<1> QED
  BY <1>1, <1>2, SerialObeys, PTL

\* Nor does the status of a delivery then go back.
THEOREM StatusOnlyForward == WorkspaceSpec => StatusMovesForward
<1>1. (~ (part = "serial")) => [part = "serial" => StatusForward]_workspaceVars
  OBVIOUS
<1>2. [StatusForward]_vars /\ [WorkspaceNext]_workspaceVars
        => [part = "serial" => StatusForward]_workspaceVars
  <2>1. UNCHANGED vars => StatusForward
    BY DEF vars, signVars, StatusForward
  <2> QED
    BY <2>1
<1> QED
  BY <1>1, <1>2, SerialObeys, StatusForwardWithoutOverlap, PTL DEF StatusMovesForward, WorkspaceSpec

\* The invariants of the organization's own side hold in the whole.
THEOREM OrganizationKept ==
  WorkspaceSpec =>
    [](ScopesAgree /\ OnlyMovedUsersLoop /\ InvitesSingleUse /\ RosterFollowsCoach)
BY PartsObey, ScopesAlwaysAgree, LoopsOnlyOfTheMoved, CodesForOneUse, RostersFollow, PTL

\* Also when submissions overlap, every row recomputes and is linked to a row
\* of its own organization.
THEOREM ChainKeptInWorkspace == WorkspaceSpec => [](ChainRowsRecompute /\ LinksStayInOrg)
BY PartsObey, ChainRowsAlwaysRecompute, LinksAlwaysStayInOrg, PTL
=============================================================================
