------------------------------ MODULE AdminDesk ------------------------------
(***************************************************************************)
(* The administrator's own tables: tasks with their subtasks and comments  *)
(* (api/admin_tasks.py) and mailing lists with their members               *)
(* (api/admin_emails.py).                                                  *)
(*                                                                         *)
(* A request that decides on what it has read is a read and a commit.  A   *)
(* commit writes the columns whose value differs from what was read, and   *)
(* fails if the row is gone or a key is taken.                             *)
(***************************************************************************)
EXTENDS Integers, Sequences, FiniteSets, FiniteSetsExt

CONSTANTS
  Hand,        \* requests that may be in flight
  ListName,    \* mailing_lists.name
  Reader,      \* accounts
  MaxTask, MaxItem \* bounds: tasks; subtasks, comments and lists made

VARIABLES
  tasks,       \* admin_tasks, by id
  items,       \* admin_task_subtasks and admin_task_comments, by id
  lists,       \* mailing_lists, by id
  listMembers, \* mailing_list_members
  hands        \* the requests in flight, with what they have read

deskTableVars == <<tasks, items, lists, listMembers, hands>>

TaskStatus == {"backlog", "in_progress", "done"}
AtRest == [op |-> "idle"]

AdminDeskInit ==
  tasks = <<>> /\ items = <<>> /\ lists = <<>> /\ listMembers = {}
  /\ hands = [r \in Hand |-> AtRest]

LiveTasks == {t \in DOMAIN tasks : tasks[t].live}
LiveLists == {l \in DOMAIN lists : lists[l].live}
ItemsOf(t, kind) == {i \in DOMAIN items : items[i].live /\ items[i].kind = kind /\ items[i].task = t}

-----------------------------------------------------------------------------
(* Requests *)

\* Who else is in flight takes note: what follows of both is marked.
Handle(r, q) ==
  LET others == {s \in Hand \ {r} : hands[s] # AtRest}
  IN /\ hands[r] = AtRest
     /\ hands' = [s \in Hand |->
          CASE s = r        -> [q EXCEPT !.raced = others # {}]
            [] s \in others -> [hands[s] EXCEPT !.raced = TRUE]
            [] OTHER        -> AtRest]
     /\ UNCHANGED <<tasks, items, lists, listMembers>>

Finish(r) == hands' = [hands EXCEPT ![r] = AtRest]

\* The row is gone or the key is taken: the transaction is undone.
GiveUp(r) ==
  /\ hands[r] # AtRest
  /\ Finish(r)
  /\ UNCHANGED <<tasks, items, lists, listMembers>>

-----------------------------------------------------------------------------
(* Tasks *)

\* A status that is none is the default (_coerce_status), here "backlog".
CreateTask(status) ==
  /\ Len(tasks) < MaxTask
  /\ tasks' = Append(tasks, [status |-> status, stamped |-> status = "done",
                             live |-> TRUE, raced |-> FALSE])
  /\ UNCHANGED <<items, lists, listMembers, hands>>

UpdateTaskRead(r, t, status) ==
  /\ t \in LiveTasks
  /\ Handle(r, [op |-> "task", task |-> t, status |-> status, seen |-> tasks[t].status,
                raced |-> FALSE])

\* Fault: a task is stamped when it is done, and keeps the stamp.
Stamped_Kept(q) == IF q.status = "done" THEN TRUE ELSE tasks[q.task].stamped

\* completed_at is set, or cleared, on the transition that the request sees.
Stamped(q) ==
  IF q.status = "done" /\ q.seen # "done" THEN TRUE
  ELSE IF q.status # "done" /\ q.seen = "done" THEN FALSE
  ELSE tasks[q.task].stamped

UpdateTaskCommit(r) ==
  LET q == hands[r]
  IN /\ q.op = "task"
     /\ q.task \in LiveTasks
     /\ tasks' = [tasks EXCEPT ![q.task] =
          [status  |-> IF q.status = q.seen THEN @.status ELSE q.status,
           stamped |-> Stamped(q), live |-> TRUE, raced |-> @.raced \/ q.raced]]
     /\ Finish(r)
     /\ UNCHANGED <<items, lists, listMembers>>

\* A hard delete, with all that hangs on the task (ON DELETE CASCADE).
DeleteTask(t) ==
  /\ t \in LiveTasks
  /\ tasks' = [tasks EXCEPT ![t].live = FALSE]
  /\ items' = [i \in DOMAIN items |->
       IF items[i].task = t THEN [items[i] EXCEPT !.live = FALSE] ELSE items[i]]
  /\ UNCHANGED <<lists, listMembers, hands>>

\* Positions start with 0.
NextPosition(t) == 1 + Max({-1} \cup {items[i].position : i \in ItemsOf(t, "subtask")})

\* subtask_create reads the last position; comment_create has none.
AddItemRead(r, t, kind) ==
  /\ t \in LiveTasks
  /\ Handle(r, [op |-> "item", task |-> t, kind |-> kind, raced |-> FALSE,
                position |-> IF kind = "subtask" THEN NextPosition(t) ELSE 0])

\* The foreign key holds: the task is there.
AddItemCommit(r) ==
  LET q == hands[r]
  IN /\ q.op = "item"
     /\ q.task \in LiveTasks /\ Len(items) < MaxItem
     /\ items' = Append(items, [task |-> q.task, kind |-> q.kind, position |-> q.position,
                                ticked |-> FALSE, live |-> TRUE, raced |-> q.raced])
     /\ Finish(r)
     /\ UNCHANGED <<tasks, lists, listMembers>>

\* subtask_update
TickSubtask(i, ticked) ==
  /\ items[i].live /\ items[i].kind = "subtask" /\ items[i].ticked # ticked
  /\ items' = [items EXCEPT ![i].ticked = ticked]
  /\ UNCHANGED <<tasks, lists, listMembers, hands>>

DeleteItem(i) ==
  /\ items[i].live
  /\ items' = [items EXCEPT ![i].live = FALSE]
  /\ UNCHANGED <<tasks, lists, listMembers, hands>>

-----------------------------------------------------------------------------
(* Mailing lists *)

Named(n) == {l \in LiveLists : lists[l].name = n}

CreateListRead(r, n) ==
  /\ Named(n) = {}
  /\ Handle(r, [op |-> "list", name |-> n, raced |-> FALSE])

\* The name is unique.
CreateListCommit(r) ==
  /\ hands[r].op = "list"
  /\ Named(hands[r].name) = {} /\ Len(lists) < MaxItem
  /\ lists' = Append(lists, [name |-> hands[r].name, live |-> TRUE])
  /\ Finish(r)
  /\ UNCHANGED <<tasks, items, listMembers>>

\* The members are deleted first, those of that moment.
DeleteListRead(r, l) ==
  /\ l \in LiveLists
  /\ Handle(r, [op |-> "unlist", list |-> l, raced |-> FALSE,
                swept |-> {m \in listMembers : m[1] = l}])

\* The foreign key holds: a member added meanwhile keeps the list.
DeleteListCommit(r) ==
  LET l == hands[r].list
  IN /\ hands[r].op = "unlist"
     /\ l \in LiveLists
     /\ {m \in listMembers : m[1] = l} \subseteq hands[r].swept
     /\ lists' = [lists EXCEPT ![l].live = FALSE]
     /\ listMembers' = listMembers \ hands[r].swept
     /\ Finish(r)
     /\ UNCHANGED <<tasks, items>>

\* Adding a member again is silent: nothing is written.
AddMemberRead(r, l, u) ==
  /\ l \in DOMAIN lists /\ <<l, u>> \notin listMembers
  /\ Handle(r, [op |-> "member", list |-> l, reader |-> u, raced |-> FALSE])

\* Unless both requests have found no member: then the key is taken.
AddMemberCommit(r) ==
  LET m == <<hands[r].list, hands[r].reader>>
  IN /\ hands[r].op = "member"
     /\ m[1] \in LiveLists /\ m \notin listMembers
     /\ listMembers' = listMembers \cup {m}
     /\ Finish(r)
     /\ UNCHANGED <<tasks, items, lists>>

RemoveMember(m) ==
  /\ listMembers' = listMembers \ {m}
  /\ UNCHANGED <<tasks, items, lists, hands>>

-----------------------------------------------------------------------------

TasksNext ==
  \/ \E status \in TaskStatus : CreateTask(status)
  \/ \E t \in DOMAIN tasks : DeleteTask(t)
  \/ \E i \in DOMAIN items : DeleteItem(i) \/ \E b \in BOOLEAN : TickSubtask(i, b)
  \/ \E r \in Hand :
       \/ \E t \in DOMAIN tasks :
            \/ \E status \in TaskStatus : UpdateTaskRead(r, t, status)
            \/ \E kind \in {"subtask", "comment"} : AddItemRead(r, t, kind)
       \/ UpdateTaskCommit(r) \/ AddItemCommit(r) \/ GiveUp(r)

MailingListsNext ==
  \/ \E m \in listMembers : RemoveMember(m)
  \/ \E r \in Hand :
       \/ \E n \in ListName : CreateListRead(r, n)
       \/ \E l \in DOMAIN lists : DeleteListRead(r, l) \/ \E u \in Reader : AddMemberRead(r, l, u)
       \/ CreateListCommit(r) \/ DeleteListCommit(r) \/ AddMemberCommit(r) \/ GiveUp(r)

AdminDeskSpec == AdminDeskInit /\ [][TasksNext \/ MailingListsNext]_deskTableVars

\* The type of the state; what hangs on a task, or a list, has it.
AdminDeskTypeOK ==
  /\ \A t \in DOMAIN tasks :
       tasks[t] \in [status : TaskStatus, stamped : BOOLEAN, live : BOOLEAN, raced : BOOLEAN]
  /\ \A i \in DOMAIN items : items[i].live => items[i].task \in LiveTasks
  /\ listMembers \subseteq LiveLists \X Reader
  /\ \A r \in Hand : hands[r].op \in {"idle", "task", "item", "list", "unlist", "member"}

-----------------------------------------------------------------------------
(* Properties *)

\* The desk adds up: a task has a time of completion just when it is done, and
\* its subtasks have positions of their own, unless it was written by requests
\* that overlapped (task_update, subtask_create); and a mailing list is the only
\* one of its name, whatever overlapped.
DeskAddsUp ==
  /\ \A t \in LiveTasks : tasks[t].raced \/ (tasks[t].stamped <=> tasks[t].status = "done")
  /\ \A t \in LiveTasks : \A i, j \in ItemsOf(t, "subtask") :
       i # j /\ items[i].position = items[j].position => items[i].raced \/ items[j].raced
  /\ \A l, k \in LiveLists : lists[l].name = lists[k].name => l = k
=============================================================================
