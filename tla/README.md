# A TLA+ development of the GhoulHR backend

GhoulHR is a multi-tenant HR server: NestJS and TypeORM over PostgreSQL, one
master database, and a database for each organization (tenant). This directory
holds TLA+ models of the parts of it in which requests meet each other, or in
which one record must agree with another:

* the workflows: expense claims, leave requests, timesheets, attendance with
  its regularizations and biometric devices, performance assessments;
* the tenants: organizations, their databases and the connections to those,
  and the plans they pay for;
* the people: reporting lines, roles and permissions as data, and to whom a
  request for approval goes;
* the administration: stored files and the document centre, departments,
  designations and employees, branches, shifts, leave types, holidays, skills.

Each is checked by TLC on small instances, and what matters most of the
workflows, the tenants and the people is proved with TLAPS for all instances.

All paths below are relative to the repository's source directory `src/`
unless they begin with `docs/`.

## What makes this system hard

There is one fact behind most of the models. No entity has a version column and
no query takes a pessimistic lock, so all transactions run at PostgreSQL's READ
COMMITTED, and a handler keeps the entity it read in memory over many `await`s
before it calls `repository.save(entity)`. That call loads the row again,
compares it column by column with the entity, and writes the columns that
differ, addressed by primary key alone. A column that another request changed
before that load is put back; one that is changed after it is kept. A status
that was checked at the read may have changed by the write. Module
`Persistence` defines this (`SaveOver`), and the other modules interleave the
statements around it.

Against it the code has: conditional updates (`UPDATE ... WHERE id AND status`)
in the reviewers' operations on expense claims, unique indexes, foreign keys
and NOT NULL columns, row locks between an UPDATE and its COMMIT, and, for the
tenant connections, a map of promises. The models keep all of these, and the
properties say how far they go.

Three more things are hard. Much of what administrators save is several writes
outside a transaction, so that a failure in between stays (roles, renewals,
certificates, the default catalogue of skills). What a handler does to the
bucket of files is not undone when its transaction is. And some answers are
computed twice, by services that do not share the code (the days of a leave and
its overlap check; the button to sign in and the check behind it; the list of
pending approvals, the detail of one, and the permission to decide it).

Many properties have the form "unless a handler committed on something
outdated, ...". The history variables (`lost`, `stale`, `behind`, `tangled`,
`crossed`, `unsure`, `excused` and their kin) mark exactly these commits: of a
handler that read a row before another handler's commit changed it, or that
failed half way. Such a property does not hold of the race it excepts, and does
not claim to: it says that nothing else breaks what it states, however requests
interleave, and that the damage stays with the rows the race was about. What
such a commit can break is not hidden: the section *What the code does not do*
lists the stronger statements, which documents and comments of the repository
make and TLC refutes.

## Inventory

For each component: its state, its operations, what is hard, and what makes it
correct.

| Component | State | Operations | Hard | Correct when |
|---|---|---|---|---|
| **Expense claims** `ess/expense` | claims, lines, receipts, audit entries | create, edit, add/change/delete line, submit, withdraw; manager and finance approve, reject, send back; mark paid | stale saves of the employee against conditional updates of the reviewers; line limits and duplicate checks without locks | stages in order, payments backed by approvals, totals are sums of lines, an expense is not under way twice |
| **Leave requests** `ess/leave` | requests, balances per leave type and year, rules, holidays | request, withdraw, approve, reject; balances created at first use | balances read, changed in memory and written absolutely; overlap query on another connection; half-day arithmetic done twice | balances are the sums of the leaves, nobody is away twice in one half day |
| **Timesheets** `ess/timesheet` | a row per day with status and total, its entries | save or submit a day, reopen, approve (one or many), reject | saves cascade to entries, delete and insert them; the others save without a transaction | a day shows one save, an approved day is final |
| **Organizations** `organizations` | master row, tenant database, schema, roles, admin | create with rollback, update, remove, restore; bootstrap at start | a saga over two databases, each step and each undo may fail; crash | a completed organization stays complete, a failed creation leaves nothing |
| **Tenant connections** `core/database` | map of DataSources, map of connection attempts | get or create, create and drop a database | concurrent first requests; a drop during an attempt | one pool per database, none lost, no attempt locked for ever |
| **Connection pools** (pg-pool as the services use it) | connections, queue | transactions that query through a second connection | all wait for each other until a timer ends one | every request is answered |
| **Attendance** `ess/attendance` | punches, daily summaries | sign in and out, look at a day; the month, the swipes, who is in | two sign-ins at once; two recomputations from different snapshots; shifts that span midnight | the summary is that of the punches; IN and OUT alternate; the views agree |
| **Regularization** `ess/attendance` | requests to correct a day | request, withdraw, approve, reject | approval adds punches to a day that still receives some; two deciders | an approved day is complete |
| **Biometric ingest** `biometric` | the device's buffer, unmapped rows, who has which number | push, map, convert, ignore | events are sent again, or acknowledged although they failed; a conversion fails half way | an event becomes at most one punch, and is lost by a failure only |
| **Performance assessments** `ess/performance` | assessment, answers, score | assign, self, manager, HR and role review | status checked before the transaction and written without condition | stages signed and never undone, a score is that of its answers |
| **Reporting managers** `employees` | active assignments | assign, change, remove | the walk up the chain precedes the transaction | no circle |
| **Subscriptions** `subscriptions` | plans of an organization | first plan, renewal, expiry by a job or by a request | a renewal is two writes; expiry races with it | a plan that was paid for is not lost |
| **Roles and permissions administration** `rbac` | links of employees to roles, of roles to permissions | edit | links deleted and inserted one by one, in no transaction | the links are those last asked for |
| **Routing of approvals** `rbac`, `ess/*` | staff, roles, scopes, managers, one pending request | submit, list, open, decide; everything that changes the staff | three code paths per kind of request, four kinds, two modes of scopes | who may decide finds the request and can open it, and somebody may |
| **File storage** `storage` and its callers | objects, rows that refer to them | upload, finalize, replace, delete, purge | the bucket is not part of the transaction | no row without its file |
| **Document centre** `document-centre` | documents, archives | upload, archive of certificates, edit, remove | no transaction; index of one certificate per year | one certificate each, the last one |
| **Structure and employees** `employees`, `settings` | departments, designations, their pairs, employees, codes, posts | save lists; create, edit, onboard an employee | checked before the transaction; a department that is deleted empties references | department and designation belong together; codes and posts differ |
| **Settings and calendar** `settings` | branches, shifts, leave types, holidays | save whole lists; migrate old shifts; import | lists saved by difference; a branch that goes while something is saved for it | what is in use refers to branches that exist; an import holds |
| **Skills** `skills` | catalogue in three levels, skills held | edit, remove, move, seed | removal by a mark, so that no foreign key protects what is below | nothing hangs on a removed row |
| Leave calendar, authentication, notifications and dashboards, mail, leads, reminders, migrations | - | read-only views, single-row writes, scripts | little | not modelled, see below |

`PROJECT.json` lists all components with their files, status and the reason
where one is not modelled.

**How they interact.** All through rows. An approval of a leave reads the rules
and holidays that *Settings* keep; a regularization and a biometric swipe write
punches and recompute the summaries that signing in does; the manager that
*Reporting managers* assigns is the addressee of the next request and, with the
roles, one of those who may decide it; forms of expenses, leaves and employees
move the files that *File storage* uploaded; every tenant request goes through
the tenant's connection and its pool. Within a composed module these
interactions are modelled as they are; across the modules (leave rules, expense
policy) they are constants or nondeterministic failures.

## Modules

| Module | Models | Extended or used by |
|---|---|---|
| `Persistence` | `Repository.save` at READ COMMITTED | ExpenseClaims, Timesheets, Attendance |
| `ClaimLifecycle` | abstract: a claim with atomic requests | refined by ExpenseClaims |
| `ExpenseClaims` | `ess-expense.service.ts` | MCExpenseClaims, ExpenseClaims_proofs |
| `LeaveDays` | `leave-day-calculator.service.ts`, `leave-request-query.util.ts` | LeaveRequests |
| `LeaveRequests` | `ess-leave.service.ts`, `leave-balance.service.ts` | MCLeaveRequests, LeaveRequests_proofs |
| `Timesheets` | `ess-timesheet.service.ts` | MCTimesheets, Timesheets_proofs |
| `TenantConnections` | `tenant-connection.manager.ts` | Organizations |
| `Organizations` | `organizations.service.ts`, its bootstrap, the tenant resolver, composed with TenantConnections | MCOrganizations, Organizations_proofs |
| `ConnectionPool` | pg-pool under `dataSource.transaction` | MCConnectionPool, Organizations_proofs |
| `AttendanceDays` | pairing of punches, summary of a day, open sessions (pure) | Attendance |
| `Attendance` | sign-in, sign-out, recomputation in `ess-attendance.service.ts` | Regularizations, BiometricIngest |
| `Regularizations` | `ess-attendance-regularization.service.ts` | AttendanceSystem |
| `BiometricIngest` | `biometric-ingest.service.ts`, `biometric-mapping.service.ts`, device punches | AttendanceSystem |
| `AttendanceSystem` | the three together, with fairness | AttendanceViews, AttendanceSystem_proofs |
| `AttendanceViews` | day detail, swipes, month, who is in, minutes late and in the shift | MCAttendance |
| `PortalHandlers` | handlers that overlap and may fail | the modules below |
| `ReportingLines` | `reporting-managers.service.ts` | PeopleSystem |
| `Assessments` | `ess-performance.service.ts` and the score | PeopleSystem |
| `EmployeeRoles` | edits of role and permission links | PeopleSystem |
| `Subscriptions` | `organization-subscription.service.ts` | PeopleSystem |
| `PeopleSystem` | the four together | MCPeople, PeopleSystem_proofs |
| `StoredFiles` | the bucket, and every handler that attaches, replaces or drops a file | DocumentCentre |
| `DocumentCentre` | `document-centre.service.ts` | Administration |
| `OrgStructure` | `employees.service.ts`, departments and designations of the settings | Administration |
| `OrgSettings`, `OrganizationCalendars` | branches, shifts, leave types; holidays and their import | Administration |
| `SkillCatalog` | the catalogue and the skills of employees | Administration |
| `ApprovalRouting` | scopes and guards of `rbac`, and the approvers' queries of the four workflows | Administration |
| `Administration` | all of these together | MCAdministration, Administration_proofs |
| `Sums` | lemmas on the sums the models use (`SumFunctionOnSet`, `SumFunction`) | ExpenseClaims_proofs, LeaveRequests_proofs, PeopleSystem_proofs, AttendanceSystem_proofs |

In every module a request or handler is a record (`tx[r]`, `saga[c]`,
`call[c]`) whose `pc` is the statement it is about to run and whose other
fields are what the handler's local variables hold. An action is what happens
between two points at which another request could run. Actions have the
names of the methods where one action is one method (`submit`, `withdraw`,
`createDatabase`), and of the statement otherwise (`LoadLine`, `UpdateDay`,
`CommitSave`). `Fail` (and its kin) is an exception at any `await`.

### ExpenseClaims

`claim`, `line` and `audit` are the committed rows. An employee's request reads
the claim (its check that the claim is editable is made here, on that read),
then runs its own statements, then loads the claim again and saves it; UPDATE,
audit entry and COMMIT are one step, since from the UPDATE on the request holds
the row lock and reads nothing others can change. A line that is written is
held, invisible and locked, until then. The reviewers' requests read the claim,
and decide with the conditional UPDATE. The four duplicate queries and the
checks of a line against the policy (category, receipt, window, amount of one
line) are one step that passes or fails. Receipts are in `StoredFiles`; the
editing of the policy is not modelled.

`lost[c]` is set when a request of the employee commits on a claim that somebody
else's commit changed after its first read. `ClaimLifecycle` is the abstract
specification: atomic requests, the amount under review fixed by submission, and
an explicit `Overwrite` for the lost claims. `ImplementsLifecycle` is the
refinement.

### LeaveDays and LeaveRequests

`LeaveDays` is arithmetic: what a range of days with a first and a last session
is charged by the calculator, and which halves of which days the overlap check
holds to be taken, translated from two services that compute it independently.
Durations are counted in half days. `LeaveRequests` has one balance per leave
type of one employee and one year. Request and decision read the balance, check,
change it in memory and write it; the statements between the balance UPDATE and
COMMIT are one step because of the row lock. `pendingDays` is always written,
because the text in memory (`1`) is not the text of the column (`1.00`). So is
`usedDays` by an approval; any other save writes it back only where the second
read of `save` finds another value than memory has, so it ends as what memory
has or as what a commit after that read left (`UsedKept`).
Supporting documents are in `StoredFiles`, the approver in `ApprovalRouting`;
copies, notifications, carry-over, the reminder job, and leaves that cross New
Year are not modelled.

### Timesheets

`day` and `entries` are the committed rows of one employee; the entries of one
save are one unit, named by the save (`Form` says how many hours it has and
whether it submits). `save(day)` reloads the row with its entries: an entry that
memory lacks would be detached, which NOT NULL forbids, so the save fails; one
that only memory has is inserted again. `submittedAt` is a Boolean, the other
columns of a decision follow the status. A save deletes and inserts entries
after that, in its transaction; reopen, approval and rejection save in a
statement of their own. The window of dates, categories, reports and e-mails are
left out. An outdated save is one whose day changed after it was *reloaded*:
what happens between its first read and the reload is covered by the properties,
and is the interesting part.

### TenantConnections and Organizations

`connections` and `lock` are the two maps of the manager; a `source` is a
DataSource with its pool. What runs when a promise settles is one step, with
the continuation of everyone who awaited it. `dropDatabase` is `destroy()`,
removal from the cache, then terminate and DROP as one. `Organizations` runs
creations (`saga`) with their rollback, updates (of the subdomain too, if `Ops`
has "rename"), removal, restore, tenant requests, a crash, and the bootstrap.
An update (`edit`) reads the row, saves what it then has in memory, and makes the
admin where the database can be asked for his employee, in three steps. Since
`save` inserts a row it does not find, an update can bring back an organization
that a rollback has deleted in between: `revived` marks these, and
`NothingHalfProvisioned` says what they are, a row alone. `mishaps` counts what
the rest of it excepts: a crash, a compensation that fails, and a CREATE DATABASE
that went through unnoticed.
`generateDbName` is the identity on subdomains: the DTO admits lower-case
letters, digits and hyphens only. The port of an organization only matters as
one more unique index that can fail a save. There is one server process, while
pm2 may run several; the additional roles pass of `RbacTenantBootstrapService`
at start, rows older than tenant databases, the admin's employee and password,
TLS, and a save whose answer is lost are not modelled.

### ConnectionPool

A request takes a connection for its transaction and, in `createRequest` of
leaves and in `addLine` and `submit` of expenses, a second one from the same
pool while it holds the first (their policy and overlap queries go through the
`DataSource`, not the transaction's manager). The queue is first in, first out;
`connectionTimeoutMillis` ends a wait.

### AttendanceDays, Attendance, Regularizations, BiometricIngest

`AttendanceDays` is what the code computes from the punches of a day: which
punches the day reads (a shift that spans midnight reads the next calendar day
too), how IN and OUT are paired, the summary, and which session is open. The
query orders punches by their instant alone; of two punches of one instant (a
correction, given to the minute, or a swipe that coincides with another) the
model takes the IN first, where the database may give either. The pairing, a
loop in the code, is a definition by what a pair is; `MCAttendance` checks it
against the loop over every set of punches of five instants
(`PairsAreWhatTheLoopFinds`).

`Attendance` has one employee. Everything that adds punches ends alike, and the
module says how: the handler's own punches are inserted (`own`, invisible to
others until COMMIT), the punches of the work date are read (`Snapshot`), the
summary row is loaded (`LoadSummary`) and saved (`CommitPunches`). `behind[d]`
is set when the handler that saved the summary of `d` last had read before
another one committed, or when a web punch changed the pairs of a day it does
not recompute; `tangled[d]` when a punch of `d` was decided on before the one
that precedes it was stored, or told its direction by the device or a form.
`Regularizations` adds the requests; their check for a pending one and the
insert are one step because of `UQ_att_reg_pending_emp_date`. `BiometricIngest`
adds a device with its buffer: a push is what the device sends until it is
answered, and its events are taken one by one; an event that fails is
acknowledged with the others. An answer may be lost, and the process may
crash. Conversion of the queue by an administrator is the same `ingestDevicePunch`
on queued rows. Rows of attendance sessions (derived from the same pairs and
read nowhere), the parsing of device lines, and how shift, policy and roster are
looked up are left out: the scenario says whether the shift spans midnight,
whether the device tells directions, and how wide the dedupe window is.

### AttendanceViews

What the portal shows of that state: the button to sign in or out, the punches
in the detail of a day, the list of swipes, the month, who is in; and the
minutes late, early, in the shift, missing and in excess. `ViewsAgree` relates
them to each other and to the check behind the button. A punch of the list shows
in the detail of a day only if a sign-in precedes it on the days that are read
(`Preceded`): a sign-out that is accepted just before midnight and stamped just
after it, under a shift that does not span midnight, shows on no day at all, and
`LateSignOut` is the scenario that has it. The minutes are checked
against counting the instants one by one, over every set of punches
(`MinutesAreTheInstantsCovered`).

### PortalHandlers, ReportingLines, Assessments, EmployeeRoles, Subscriptions

`PortalHandlers` is what they share: `scenario` (which requests come in this
history), the day, and the handlers. A handler that fails just ends.

`ReportingLines`: an assignment walks up the chain of the new manager, one query
at a time, and then closes the active row and inserts the new one in a
transaction. `crossed[e]` marks a line assigned while another one changed.
`Assessments`: one assessment; a handler reads the status, saves one answer in
its transaction, computes the score if the employee's own handler does, and
updates the row whatever its status has become. Signatures (`submittedAt` and
its kin) are Booleans. `EmployeeRoles`: an edit deletes the links of its owner
and inserts the new ones one by one; `torn` marks an owner whose last edit
overlapped or failed. The role named as primary need not be one of those that are
assigned: then no link is primary, and the employee's record takes any of them. `Subscriptions`: a renewal supersedes the active plan in
one write and inserts the new one in another; a job and every request that is
let in expire what has run out. `PeopleSystem` composes the four.

### StoredFiles and DocumentCentre

`objects` are the keys the bucket has, `refs` the rows that refer to one. A
client uploads first and sends the key with a form; the handler of the form
copies the object to its final key, deletes the source, deletes what it
replaces, and commits its rows last. `todo` is that list of statements, which
differs per form. A deletion that fails is swallowed, as in the code; any other
failure leaves the rows as they were and the bucket as it has become.
`excused` are the keys of which a handler failed half way, overlapped with
another one, or that two rows share. The purge lists, deletes and clears the
references of five tables. `DocumentCentre` adds the library: certificates one by
one and in an archive (the old row removed, the object stored, the new row
inserted, no transaction), policies, edits and removals.

### OrgStructure, OrgSettings, OrganizationCalendars, SkillCatalog

Lists of departments and designations are saved whole, with their pairs; an
employee is checked against them before the transaction that writes him, and a
deleted department empties his reference. `codes` are numbers; as text, padded
to four digits, 9999 stays the greatest of them (`Padding`), which is modelled
because `TakeCode` orders them as text; and with a hyphen in the prefix the
number is never found in the last code, so that every code is the first one
(`HyphenInPrefix`). A post that the onboarding form leaves out is undefined, and
TypeORM leaves its columns alone; a transfer takes what it does not give from the
row (`Completed`). `displaced` and `rivals` mark employees
whose list changed while they were checked, and emails two handlers were about
at once. `OrgSettings` saves branches, shifts and leave types by difference,
with the foreign keys and the refusals of the code, and moves the shifts of the
old JSON setting when they are first read: one that names a branch becomes a row,
one that names none is lost (`migrated` remembers both). `OrganizationCalendars` has the
calendar of one year, single holidays, imports (last row wins, saved over a row
of the same date and branch) and publication. `SkillCatalog` has four levels of
rows in one sequence; a removal counts what is below first, and saves a mark.
The default catalogue is made row by row, each with the ids of the rows made
before it.

### ApprovalRouting

One pending request at a time, of four kinds. `Addressees` is to whom the
service sends it; `Finds` what the queries of the approvers' lists return;
`Views` whether the detail opens; `CanDecide` what the decision demands; each is
translated for each kind, with the guard on permissions before it, in both modes
of scopes. Reading and deciding are two permissions of each kind
(`approvals.<kind>:read` and `:act`), each with a scope of its own: lists and
details ask for the first, decisions for the second, and administrators set both
for every role but ORG_ADMIN (`updateRolePermissions`), while requests wait. Meanwhile employees are activated and deactivated, move to another
department, get other roles and other managers; a row of a manager that ended
today still counts today, as the query has it.

### Administration

The composition. A history asks for one part (`scenario`), so that the parts,
which share no rows but branches, are not multiplied with each other.

## Runs

Every property is also run against a mutant of the model: a definition changed as a
plausible bug would change the code (written beside the definition, marked
`mutant`), which the property must refute.

| Run | Instance | Properties |
|---|---|---|
| `expense_workflow` | 1 claim, 2 requests, 1 line slot, 2 amounts, 2 submissions, all operations | TypeOK, PaymentsBacked, AuditMatchesStatus, StageOrder, ImplementsLifecycle |
| `expense_claims` | 2 claims, 2 requests, 2 line slots, 2 expenses of different amounts; lines, submit, withdraw | TotalsMatchLines, ReviewedClaimsAreValid, NoDuplicateUnderReview |
| `leave_race` | 2 handlers, 2 leaves, 3 leave types, 4 ranges that meet on one date | BalancesMatchLeaves, NoOverdraft, BookedOnce, ChargedForSessionsTaken |
| `timesheet_days` | 2 days, 2 handlers, 4 saves (a submission, a draft of the same hours, an empty draft, one too long to submit) | DayIsOneSave, ApprovedIsFinal |
| `orgs_saga` | 2 organizations, 2 databases, 2 creations, 1 caller that sends tenant requests and updates, 1 mishap (a crash with its bootstrap, or a compensation that fails), removal and restore | ReadyStaysReady, ConnectionsSound, NothingHalfProvisioned |
| `pool_full` | 4 requests, 2 connections | PoolCorrect, EveryRequestAnswered |
| `attendance_day` | 2 handlers, 2 days of 3 instants, 10 scenarios | SummaryMatchesPunches, SessionsAlternate, EveryScanOnce, ViewsAgree, ApprovedDayIsComplete, EveryScanAcknowledged |
| `people` | 3 employees, 2 handlers, 8 scenarios | NoCircularChain, StagesSigned, ScoreMatchesAnswers, LinksAsAssigned, PlanKept, NothingUndone |
| `admin` | 2 employees and a director, 2 handlers, 22 scenarios | FilesAreThere, OneForm16, EmployeesPlaced, EmployeesDiffer, OldShiftsMoveOnce, BranchesExist, ImportsHold, SkillTree, PendingIsReachable |
| `expense_locked`, `orgs_own`, `attendance_overnight` | small | one statement each that TLC refutes, see below |

**Scenarios.** Three runs begin with a choice of a scenario, which says which
requests come and never changes. One run then covers several small worlds, each
with all interleavings of its requests, instead of one world that is too large.

**Bounds.** Two requests suffice for every conflict between a read and a write
of one row, and every property names one claim, leave pair, day, owner or
database; what a third adds is proved rather than checked where it matters.

* Expenses: `MaxRows` bounds line rows ever inserted (not the live ones: rows
  are soft-deleted), `MaxSubmits` the submissions of a claim, two in
  `expense_workflow` so that a claim sent back is submitted again; `MaxLines` is
  the policy's limit, reached by two concurrent inserts. Amounts 1 and 2 with a
  limit of 2 make both the sum limit and an exchange of amounts visible.
* Leaves: a morning, an afternoon and a whole day of one date, and a range that
  begins that afternoon and ends after a weekend day; leave types with and
  without half days, negative balance, and weekends that count. The arithmetic
  is also evaluated over every pair of ranges of four days and every rule.
* Timesheets: `Saves` are used again once no entry of theirs is left.
* Organizations: `MaxMishaps = 1` lets the server stop once at every point, the
  bootstrap included, or one compensation fail. `Ops` leaves out "rename", which `orgs_own` has.
* Pool: four requests on two connections have transactions hold both
  connections with others queued before and behind them.
* Attendance: the calendar has two days of three instants, so that a session
  can begin, end and begin again on a day, span midnight, or have a swipe within
  the dedupe window. Two swipes, one lost answer or crash, two requests for
  correction of which the second needs the first to be withdrawn or rejected.
* People: three employees are the shortest chain in which two assignments close
  a circle neither sees; two questions count for the score and one does not;
  three plans are a plan, its renewal, and one more. Employees and handlers are
  symmetric.
* Administration: two handlers, three keys (an upload, its final key, and one
  more), one department and one designation (absent, active or inactive), one
  branch or none, one date, two holiday names, five rows of skills. Employee
  codes begin at 9998, so that the padding overflows at the third hire. The
  histories that look at changes import files of one row and begin with a
  published calendar, those that look at imports use files of up to two rows.
  Approvals: one request at a time, three changes of the staff in between; the
  default scopes of the built-in roles and one role of the organization's own
  with scope DEPARTMENT; six changes of what a role may do, among them a
  permission to decide without the one to read, different scopes for the two, a
  restricted HR_ADMIN, and one of ORG_ADMIN, which the service refuses;
  assignments of managers take effect on the day they are made.

**Deadlock.** TLC checks for it in Timesheets, Organizations and
ConnectionPool. The others really stop: a claim that is paid, rejected or
withdrawn takes no more requests, a decided leave neither, the clock of
attendance ends, and the rows and keys that the bounds allow run out.

**Fairness** is assumed in two specifications, for the steps of handlers that
run and never for the arrival of requests. `ConnectionPool`: weakly, for each step of an
accepted request; PostgreSQL answers queries, and pg-pool's timer
(`connectionTimeoutMillis`, tenant-connection.manager.ts:201) fires for everyone
who waits. Without the timer the property fails, which is what one of the
mutants shows. `AttendanceSystem`: weakly for the steps of each handler, which
run on until they end or the process crashes; strongly for an insert that waits
for the key of another (PostgreSQL queues those who wait for a lock, and the lock
is free again and again) and for the push of the device, which repeats it until
it is answered (the server takes it whatever else it does; that it needs a free
handler is of the model only).

## What is proved

All proofs are checked by tlapm to the last leaf, for all sets of claims,
requests, days, employees and so on, from the named assumptions of the modules
(`ConstantsAssumption`, `LeaveAssumption`, `TimesheetAssumption`,
`ConnectionsAssumption`, `OrganizationsAssumption`, `PortalAssumption`,
`AssessmentAssumption`, `RolesAssumption`, `SubscriptionAssumption`,
`PoolAssumption`, `AttendanceAssumption`, `FilesAssumption`, `StructureAssumption`,
`SettingsAssumption`, `CatalogAssumption`): the types of the constants, that sets of ids and
catalogues are finite, and that `None` is not one of the values.

* **Sums**: what the sums the models use do, `SumFunctionOnSet` and `SumFunction`
  over a finite set: adding or removing an element, changing one value, a sum of
  naturals is none below zero, a larger set has no smaller sum, and spans of time
  that do not overlap have together no more than lies between the first and the
  last instant (`SumOfSpans`). The folds of the community modules are defined by a
  recursive function over sets; the lemmas follow from its equation, by the
  counterexample of least size instead of an induction rule.
* **ExpenseClaims_proofs**: `TypeCorrect`, `PaymentsAlwaysBacked`,
  `StagesTakenInOrder`. `PaymentsBacked` is not inductive: a claim in finance's
  queue must have an approval of the manager still to spend. `Accounted` adds
  that a claim waiting at a stage has one entry of the stage before more than of
  the next; `TxInv` says what status a request of the employee is about to write,
  stale or not: none that a reviewer sets. `IInv == TypeOK /\ TxInv /\ Accounted`.
  `SInv` adds what the lines of a claim are under the advisory lock, and gives
  `TotalsAlwaysMatch`, `ReviewedClaimsStayValid`, `AuditAlwaysMatches` and
  `NeverDuplicated`. `LifecycleImplemented` is the refinement: every step of
  the service is a step of `ClaimLifecycle` or leaves its variables alone.
* **LeaveRequests_proofs**: `NeverBookedTwiceUnlessStale`, and for the
  arithmetic `WeightIsSessionsCovered`: the two services agree on every day of
  every range. The invariant says that a handler between its
  overlap check and its COMMIT is outdated or conflicts with no active leave,
  that one which decides and is not outdated decides on a pending leave
  (`Good`), that a row is created by one handler (`Alone`), and that active
  leaves do not conflict (`NoConflicts`); a lemma turns conflicts into shared
  sessions (`RangesConflictWhenSessionsMeet`). `SInv` relates each handler's
  copy of the balance to the committed one and to the sum over the committed
  leaves: `BalancesAlwaysMatch`, `NeverOverdrawn`, `AlwaysChargedForSessions`.
* **Timesheets_proofs**: `SheetsShowOneSave` and `ApprovedDaysFinal`. `Current`
  says of each handler that is not outdated what its memory has to do with the
  committed row: a save that has yet to reload finds the day editable *or*
  entries it does not know, which is what stops the save of a stale draft over
  an approved day; `Uncommitted` that a save's entries are nowhere else before
  it commits; `Shape`, `Sends`, `Rows` what the records look like.
* **Organizations_proofs**. `CacheCorrect`, of the connections alone: `CacheInv`
  adds to the properties that a lock is exactly an attempt in progress
  (`LockIsExact`, `OneOwner`, `OneActor`) and that whoever waits asks for that
  database (`Asked`). `CompleteOrganizationsStay`: if no subdomain
  is ever changed (`"rename" \notin Ops`), a completed organization keeps row,
  admin and database and shares it with none. `SagaInv` says that no two rows
  have one subdomain and so none has the database of another (`OwnDatabase`),
  that a creation works on a row and a connection of its own (`OwnRow`,
  `OwnCall`), that what it has done to the database is still there (`Done`), and
  that nothing is created or deleted before the bootstrap is over (`BootAlone`),
  together with `CacheInv`. The assumption cannot be dropped: see
  `OneDatabasePerOrganization` below. `FailedCreationsLeaveNothing`, under the
  same assumption: as long as there was no mishap, a row or database that no
  completed organization owns belongs to a creation that is still going on
  (`CleanInv`), or is the bare row of an organization that an update saved after
  the rollback (`EditsInv`, `Bare`: what an update still knows of the row it has
  read, and that nobody gives such a row a database or an admin). `PoolAlwaysCorrect`, of the pool of one
  DataSource (`PoolInv`): every request is in one of seven phases that tell how
  many connections it holds, they add up to the size of the pool while anyone
  waits, and the queue has exactly those that wait, each once; so joining it,
  leaving it from the front or by a timer from within, and handing a connection
  over keep all of it.
* **AttendanceSystem_proofs**, of the composed system, on four invariants that
  build on each other. `ScansOnce`: a scan has at most one punch however often it
  is delivered, and is forgotten only when it was stored, queued or failed;
  `IngestInv` says what each receiver has to do, has done and owns.
  `SummariesMatch`: `SummaryInv` says what a handler that missed nothing still
  knows - that the session it found is open or closed, that the summary it
  computed is of the punches there will be, that the row it loaded is the one
  there is - and `NothingElsewhere` that a commit changes the pairs of no other
  day than its own and those it marks. It holds but for a shift that spans
  midnight together with swipes (`NightScans`), where it is false: the run
  `attendance_overnight` shows how. `SessionsAlwaysAlternate` and `ApprovedDays`:
  `OrderInv` says that nothing is punched ahead of time but the time out of a
  correction, that a day nobody tangled has one punch at an instant, and what a
  sign-in, a sign-out or a swipe was decided on; what follows the last punch of a
  day is then of the other type (`NewPunchFollows`). A request that was approved
  has both its punches, so between its times some session ended (`SomePair`), and
  the last OUT of its day exists (`LastOutIs`). `ApprovedDays` states the
  complete pair without exception and the summary outside `NightScans`.
  `ViewsAlwaysAgree` (`ViewInv`): the clock is past every punch but the time out
  of a correction (`Clock`), and a night goes on where the one before it ended
  (`NightsAlternate`), so two punches that follow each other are a session of one
  day only (`FollowersPair`), and the minutes of a month are a sum of spans that
  do not overlap (`SumOfSpans`). The attempt to prove `ViewsAgree` as it first
  stood is what showed that a late sign-out shows nowhere.
* **PeopleSystem_proofs**, of the composed system. `NoOneIsHisOwnSuperior`: any
  number of employees, chains of any length. An assignment that nothing crossed
  knows, at each question of its walk, a set of employees that excludes its own,
  contains those it has visited and is closed under managers but for the one it
  asks about next; when it commits, a set that held the new line and were closed
  would be one without it. `StagesAreAlwaysSigned` and `OnlyOutdatedStepsUndo`:
  signatures are never taken back, so that what a handler read stays signed, and
  a commit goes at most one stage beyond what its handler read.
  `ScoreIsOfTheAnswers`: the score depends on the answers to scored questions
  only, so a handler that missed none of those computes what a later reader
  would. `LinksAlwaysAsAssigned`: an assignment that nothing crossed leaves
  exactly the links its matrix names (`RoleInv`: the links the handler has yet to
  insert, together with those it has inserted, are the ones asked for), and at
  most one of them primary, whether or not the role named as primary is among
  them. `PlanAlwaysKept`: at most one plan is active, and the last one is
  superseded only while a renewal goes on or after one failed (`PlanInv`). Six lemmas frame each component from the others.
* **Administration_proofs**, of the composed system. A request is about one part:
  `Sane` says that the name of a handler tells its part, `Own` that a step
  changes handlers of its own part only, so each part has an invariant of its
  own. `WaitingRequestsAreReachable` (`RoutingInv`: what a role may do is a scope
  or nothing, and all of it for an administrator of the organization, `GrantsOk`).
  `BranchesAlwaysExist` and `OldShiftsAlwaysMoveOnce` (`SettingsInv`: ids of rows
  are new, what is left in the old setting has no row, and what was moved has one
  if it names a branch, and none otherwise). `EmployeesAreAlwaysPlaced` and
  `EmployeesAlwaysDiffer` (`StructureInv`): a handler that is sure of its post
  may still give it (`SureOf`); once it looked an email up, nobody but its own
  employee has that email unless another handler is about it too (`Claims`); and
  of the codes one is the last as text (`HasLast`), so that the number after it
  is new while all are padded; with a hyphen in the prefix the year has one code
  at most, because each hire is given the same (`SameCode`). `AlwaysOneForm16` (`CentreInv`): while one handler
  works on an employee of whom nothing failed (`Lone`), the rows of his
  certificate are what that handler last saw or left (`SettledBy`), and neither
  forms nor the purge touch the library. `AlwaysSkillTree` (`CatalogInv`): two
  handlers about the same rows both know that they overlap (`Lonely`), one that
  does not still finds what it read (`Known`), and its write keeps the rows it
  was about, and those below them, in the tree (`Writes`). `ImportsAlwaysHold`
  (`CalendarInv`): an import that nothing overlapped still finds the rows of its
  dates where it read them (`Current`), so what it writes leaves one row of a
  date that had one at most (`Imports`), and a write that leaves a date alone
  leaves its rows (`Unwritten`). `FilesAlwaysThere` (`FilesInv`): a key belongs to
  the library or to forms and never passes from one to the other (`KeysInv`);
  two rows or lines of a key make it excused (`SharedInv`); a form that nobody
  overlapped has its new key in the bucket, its old one still referred to, and
  no other handler has either (`Ready`, `AloneInv`); so what a row refers to is
  there, excused, or in the hand of the handler that deleted it (`PresentInv`).

**Model-checked only.** The type invariants of the proved modules are conjuncts
of their inductive invariants; a run checks one only where nothing is proved or
where it guides the rest. Liveness (`EveryRequestAnswered`,
`EveryScanAcknowledged`) needs fairness and ENABLED and is out of the provers'
reach; they stay with the runs. Every invariant and every action property that a
passing run checks is also a theorem, some of them under an assumption that the
theorem states and the text above explains (no subdomain changes, no shift that
spans midnight together with swipes).
The definitions by which TLC compares an operator with the loop of the code are
`ASSUME`s of the MC modules and recursive; no module with a theorem reaches one.

## What the code does not do

Statements of the repository's documents and comments that the models refute.

**Refuted in a run** (a run of its own, with the statement as its property):

| Run | Statement | What happens |
|---|---|---|
| `expense_locked` | `LockedOnceSubmitted`: a claim under review is not edited (docs/API_INVENTORY.md:363) | a line is added by a request that read the claim as a draft, while another request submits it |
| `orgs_own` | `OneDatabasePerOrganization` (docs/DATABASE_SCHEMA.md:8) | the subdomain of an organization is changed, a new one takes the old subdomain, and with it the same database name |
| `attendance_overnight` | `OutSwipesFeedTheDay`: swipes feed the summary as signing out does (docs/API_INVENTORY.md:283) | under a shift that spans midnight, a swipe that closes a session which began after midnight while the day before has one open recomputes the day before |

**Defined in the modules, and refuted by TLC** when a configuration names them
(they are not in a run, so that each kind of conflict has one):

| Definition | What happens |
|---|---|
| `ExpenseClaims!WithdrawnOnlyWhilePending` | a claim is withdrawn after its approval, by a request that read it before |
| `LeaveRequests!DecidedOnce` | two approvals, or an approval and a withdrawal, both take effect; the last one stays |
| `LeaveRequests!NeverBookedTwice` | two requests for the same half day pass the overlap check at once |
| `Timesheets!ApprovedStaysApproved` | a rejection or a reopening that read the day before overwrites an approval |
| `Timesheets!EntriesOfOneSave` | two saves at once leave the entries of both |
| `Organizations!RollbackSparesOthers` (with "rename" in `Ops`) | a failed creation drops the database that another organization was completed with |
| `TenantConnections!HandedOutOpen` | a request is handed a DataSource that is being destroyed |

**Seen while modelling**, without a definition of its own; the models that have
the code behave like this too:

* Organizations: an update that read the row before a rollback deleted it inserts
  it again, without a database and without an admin (`organizations.service.ts:275`
  against `:158`).
* Leaves: of two concurrent approvals one deduction may be lost
  (`ess-leave.service.ts:1368`; docs/API_INVENTORY.md:307); a leave over New
  Year is charged to the first year (`:495`).
* Regularizations: a correction's IN may replace the IN that the day before left
  open, whose summary is not recomputed (docs/API_INVENTORY.md:311). Under a
  shift that spans midnight an approved correction leaves its day incomplete if
  the next day's session began before the time out that was asked for. And if
  that time out is still to come, the home page shows "signed in" by the
  calendar-day rule (`ess-attendance.service.ts:226-236`, meant for "employees
  without a configured shift") while signing out answers that one is not.
* Biometric: the dedupe window looks back only, so that scans that arrive out of
  order are both stored (docs/BIOMETRIC.md:56); an ignored row whose event is
  sent again after the number was mapped becomes a punch; two overlapping
  recomputations of the same pairs double the attendance sessions.
* `exportEmployeeSwipesCsv` asks for 5000 rows (`:77`, `:1506`), but
  `getEmployeeSwipes` caps a page at 100 (`:1407`).
* Performance: `saveDraft` and `submit` take an assessment that is already
  SUBMITTED (docs/API_INVENTORY.md:411 "Locks the employee section"); the score
  is not computed again when a reviewer answers a scored question
  (`performance.constants.ts:9`); the section of a question is not checked.
* Approvals: the visible list of leaves and regularizations is `null` for the
  whole roster, which the detail and the decision take for "not found", so that
  ORG_ADMIN and HR_ADMIN see rows they cannot open (docs/RBAC.md:46); a leave
  whose addressee left waits until a manager with a scope takes it; leaves do not
  check the manager's status, expenses do; a further role with a narrower scope
  takes decisions away from a manager (docs/RBAC.md:51 "most permissive wins").
* Approvals: a role that may decide but not read decides what it cannot list or
  open, and one whose scopes differ lists what it may not decide
  (`rbac-admin.service.ts:350-363`).
* Roles: links are not unique and edits not transactional; a `primaryRoleId` that
  is none of the roles assigned is accepted, and leaves no primary link
  (`rbac.dto.ts:91-95`, `rbac-admin.service.ts:404`). Employees: no unique
  index on the email; codes stop after 9999 (text order), or with a hyphen in the
  prefix; `updateHrOnboarding` writes a whole stale row back, and without a post leaves an
  old one that no longer fits (`employees.service.ts:633-634`).
* Files: the purge leaves the document centre's references (docs/aws-s3-storage.md:98)
  and reports none deleted in quiet mode; two lines may share a receipt
  (`expense-receipt.entity.ts` "1:1 with line").
* Settings: old shifts without a branch are lost, or moved twice
  (`settings.service.ts:585` "One-time migration"); saves of documents, skills and
  holidays revive a row that was removed; single holidays may repeat a date, and
  those of a branch that is deleted stay. Skills: deleting every category brings
  the defaults back, and a catalogue half seeded is never completed.
* Known and covered by no property: an approval of a day looks up the reviewer
  after it has read the day (`ess-timesheet.service.ts:1006`); a failed creation of
  the admin's employee is logged and not retried (`organizations.service.ts:547`);
  every pm2 process bootstraps every organization (`:445`).

## Not modelled

* **Authentication and sessions**: who a request is from is given.
* **Leave calendar, notifications, home and dashboards, people search, reports**:
  they read and write nothing others rely on.
* **E-mail, leads, users, leave reminders**: single-row writes or none.
* **Single-row masters** (performance master, timesheet and expense categories,
  the registry of devices, creation, cloning and deactivation of roles): one save
  each, or they enter the models as constants.
* **Migrations, scripts, DTOs, formatting, parsing and validation of input**,
  except where a property depends on them (`Padding` of employee codes, the days
  of a leave).
* **More than one server process**: PostgreSQL's part is the same, the maps of
  the connection manager are per process; two bootstraps at once are what is
  left out.
* **Across modules**: the policy of expenses and the rules of leaves do not change
  while the workflows run; years of leave balances are not linked (carry-over).
