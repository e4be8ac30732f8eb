----------------------------- MODULE ClientApi -----------------------------
(***************************************************************************)
(* The web client's API layer as data: one row for every hook of           *)
(* src/web/src/api.  A read is a TanStack query: the key it is cached      *)
(* under and the resources its answer is made of (the path it asks for and *)
(* the references its answer embeds).  A write is a mutation: what it      *)
(* changes on the server and which cached keys it declares old afterwards. *)
(* A key is a sequence of parts; an identifier that varies is one name for *)
(* one value, since a screen asks about one issue, project or dashboard.   *)
(***************************************************************************)
EXTENDS Naturals, Sequences, FiniteSets, TLC

Everything == {<< >>}                    \* invalidateQueries() with no filter

Read(key, of) == [key |-> key, of |-> of, polls |-> FALSE, forever |-> FALSE]

Polled(key, of) == [Read(key, of) EXCEPT !.polls = TRUE]

Forever(key, of) == [Read(key, of) EXCEPT !.forever = TRUE]

(* A write that awaits the refetch it asks for: onSuccess returns the      *)
(* promise of invalidateQueries, so the mutation is pending until then.    *)
Write(makes, changes, told) ==
  [makes |-> makes, changes |-> changes, told |-> told, awaits |-> TRUE,
   spares |-> "", puts |-> {}, drops |-> {}, clears |-> FALSE,
   settled |-> FALSE, stale |-> {}, scoped |-> FALSE]

Makes(changes, told) == Write(TRUE, changes, told)

Edits(changes, told) == Write(FALSE, changes, told)

(* The promise is dropped with void, or no promise is returned.            *)
Void(write) == [write EXCEPT !.awaits = FALSE]

(* A mutation with no onSuccess at all.                                    *)
Asks(changes) == Void(Makes(changes, {}))

(* TanStack's partial match of a query key: a filter's key is a prefix.    *)
Matches(prefix, key) ==
  /\ Len(prefix) <= Len(key)
  /\ SubSeq(key, 1, Len(prefix)) = prefix

PartsOf(key) == {key[i] : i \in 1..Len(key)}

(* The reads a write declares old: every read one of its filters matches,  *)
(* but those that name what it spares.                                     *)
Tells(write, read) ==
  /\ \E prefix \in write.told : Matches(prefix, read.key)
  /\ write.spares \notin PartsOf(read.key)

(* The reads a write declares old when it was refused for being made on an *)
(* old copy (isStaleEdit).                                                 *)
Retells(write, read) == \E prefix \in write.stale : Matches(prefix, read.key)

(* The reads a write answers itself, with setQueryData.                    *)
Puts(write, read) == read.key \in write.puts

(* The reads a write takes out of the cache: clear, or removeQueries.      *)
Drops(write, read) ==
  \/ write.clears
  \/ \E prefix \in write.drops : Matches(prefix, read.key)

Touches(write, read) == write.changes \cap read.of # {}

-----------------------------------------------------------------------------
(* Issues: what an answer with an Issue in it is made of.  The number of   *)
(* comments is filled in on the detail only; people's names, which every   *)
(* answer embeds, are left out.                                            *)
IssueShape ==
  {"issue", "type", "status", "sprint", "milestone", "team", "label",
   "version", "component", "worklog", "requestType", "company"}

IssueReads ==
  [useIssues           |-> Read(<<"issues", "query">>, IssueShape),
   useSuggestions      |-> Read(<<"issues", "suggest", "query">>, IssueShape),
   useIssue            |-> Read(<<"issues", "detail", "issueKey">>, IssueShape \cup {"comments"}),
   useTransitions      |-> Read(<<"issues", "transitions", "issueKey">>, {"issue", "workflow"}),
   useComments         |-> Read(<<"issues", "comments", "issueKey">>, {"comment", "comments"}),
   useHistory          |-> Read(<<"issues", "history", "issueKey">>,
                                {"issue", "attachment", "fieldValue"}),
   useWorklogs         |-> Read(<<"issues", "worklogs", "issueKey">>, {"worklog"}),
   useIssueHierarchy   |-> Read(<<"issues", "hierarchy", "issueKey">>, IssueShape),
   useProjectHierarchy |-> Read(<<"issues", "tree", "project">>, IssueShape)]

StatusReads ==
  [useIssueTypes      |-> Read(<<"issue-types", "retired">>, {"type"}),
   useStatuses        |-> Read(<<"statuses">>, {"status", "newStatus"}),
   useProjectStatuses |-> Read(<<"statuses", "project", "project">>, {"status", "workflow"})]

IssueWrites ==
  [useCreateIssue     |-> Makes({"issue"}, Everything),
   useDeleteIssue     |-> Void([Edits({"issue"}, Everything) EXCEPT !.spares = "issueKey"]),
   useUpdateIssue     |-> [Edits({"issue"}, Everything) EXCEPT !.stale = {<<"issues">>}],
   useTransitionIssue |-> Edits({"issue", "comment", "comments"}, Everything),
   useSetParent       |-> Edits({"issue"}, Everything)]

CommentWrites ==
  [useAddComment    |-> Makes({"comment", "comments", "timer"}, Everything),
   useUpdateComment |-> Edits({"comment"}, {<<"issues", "comments", "issueKey">>}),
   useDeleteComment |-> Edits({"comment", "comments"}, {<<"issues">>}),
   useLogWork       |-> Makes({"worklog"}, Everything),
   useUpdateWorklog |-> Edits({"worklog"}, Everything),
   useDeleteWorklog |-> Edits({"worklog"}, Everything)]

(* A new status is listed; no workflow and no issue is in it yet.          *)
StatusWrites ==
  [useCreateStatus |-> Makes({"newStatus"}, {<<"statuses">>})]

(* The lists read page by page, and the candidates for a parent.           *)
IssueListReads ==
  [useSprintIssues     |-> Read(<<"issues", "sprint", "project", "sprint">>, IssueShape),
   useBacklogIssues    |-> Read(<<"issues", "backlog", "project", "team">>, IssueShape),
   useParentCandidates |-> Read(<<"issues", "parents", "project", "types", "words">>, {"issue", "type"})]

IssueTypeReads ==
  [useProjectIssueTypes |-> Read(<<"issue-types", "project", "project", "retired">>, {"type", "issue"})]

IssueTypeWrites ==
  [useCreateIssueType      |-> Makes({"type"}, Everything),
   useUpdateIssueType      |-> Edits({"type"}, Everything),
   useRetireIssueType      |-> Edits({"type"}, Everything),
   useReinstateIssueType   |-> Edits({"type"}, Everything),
   useDeleteIssueType      |-> Edits({"type"}, Everything),
   useSetProjectIssueTypes |-> Edits({"type"}, Everything)]

(* What hangs off one issue.                                               *)
RemoteLinkApi ==
  [reads  |-> [useRemoteLinks |-> Read(<<"remote-links", "issueKey">>, {"remoteLink"})],
   writes |-> [useRemoveRemoteLink |-> Edits({"remoteLink"}, {<<"remote-links">>})]]

WatcherApi ==
  [reads  |-> [useWatchers |-> Read(<<"watchers", "issueKey">>, {"watcher"})],
   writes |-> [useAddWatcher    |-> Void(Edits({"watcher"}, {<<"watchers">>, <<"issues">>})),
               useRemoveWatcher |-> Void(Edits({"watcher"}, {<<"watchers">>, <<"issues">>})),
               useUnwatch       |-> Asks({"watcher"})]]

AttachmentApi ==
  [reads  |-> [useAttachments |-> Read(<<"attachments", "source", "issueKey">>, {"attachment"})],
   writes |-> [useUploadAttachment |-> Void(Makes({"attachment"}, {<<"attachments">>, <<"issues">>})),
               useDeleteAttachment |-> Void(Edits({"attachment"}, {<<"attachments">>, <<"issues">>}))]]

LabelApi ==
  [reads  |-> [useLabels      |-> Read(<<"labels", "page", "text">>, {"label"}),
               useLabelSearch |-> Read(<<"labels", "search", "text">>, {"label"})],
   writes |-> [useSetIssueLabels |-> Edits({"label", "issue"}, Everything),
               useUpdateLabel    |-> Edits({"label"}, Everything),
               useDeleteLabel    |-> Edits({"label"}, Everything)]]

FieldReads ==
  [useFieldKinds    |-> Read(<<"fields", "kinds">>, {}),
   useProjectFields |-> Read(<<"fields", "project", "project">>, {"field"}),
   useOrgFields     |-> Read(<<"fields", "org">>, {"field"}),
   useIssueFields   |-> Read(<<"fields", "issue", "issueKey">>, {"field", "fieldValue"})]

FieldWrites ==
  [useCreateOrgField |-> Makes({"field"}, {<<"fields">>}),
   usePromoteField   |-> Edits({"field"}, {<<"fields">>}),
   useCreateField    |-> Makes({"field"}, {<<"fields">>}),
   useUpdateField    |-> Edits({"field"}, {<<"fields">>}),
   useDeleteField    |-> Edits({"field"}, {<<"fields">>}),
   useSetFieldValue  |-> Void(Edits({"fieldValue"}, {<<"fields">>, <<"issues">>}))]

ArrangementApi ==
  [reads  |-> [useArrangements    |-> Read(<<"issue-arrangement", "project", "project">>, {"arrangement"}),
               useOrgArrangements |-> Read(<<"issue-arrangement", "org">>, {"arrangement"})],
   writes |-> [useSetProjectArrangement |-> Edits({"arrangement"}, {<<"issue-arrangement">>}),
               useSetOrgArrangement     |-> Edits({"arrangement"}, {<<"issue-arrangement">>})]]

GitReads ==
  [useRepositories |-> Read(<<"git", "repositories", "project">>, {"repository"}),
   useDevelopment  |-> Read(<<"git", "development", "issueKey">>, {"repository", "branch"})]

GitWrites ==
  [useConnectRepository    |-> Makes({"repository"}, {<<"git">>}),
   useUpdateRepository     |-> Edits({"repository"}, {<<"git">>}),
   useRotateSecret         |-> Edits({"repository"}, {<<"git">>}),
   useDisconnectRepository |-> Edits({"repository", "branch"}, {<<"git">>}),
   useCreateBranch         |-> Makes({"branch"}, {<<"git">>})]

-----------------------------------------------------------------------------
(* Planning: boards, sprints, teams, milestones, versions, the plan.       *)
BoardShape == {"board", "swimlane", "issue", "label", "type", "status", "sprint", "team"}

BoardReads ==
  [useBoard       |-> Read(<<"board", "project">>, BoardShape),
   useBoards      |-> Read(<<"board", "list", "project">>, {"board", "team"}),
   useBoardById   |-> Read(<<"board", "detail", "board">>, BoardShape),
   useSprintBoard |-> Read(<<"board", "sprint", "sprint">>, BoardShape),
   useBacklog     |-> Read(<<"board", "backlog", "board">>, {"issue", "label", "type", "status", "sprint"})]

(* useMoveCard reads everything again whether the move was taken or not.   *)
BoardWrites ==
  [useCreateBoard |-> Makes({"board"}, Everything),
   useUpdateBoard |-> Edits({"board"}, Everything),
   useDeleteBoard |-> Edits({"board"}, Everything),
   useMoveCard    |-> [Edits({"issue"}, Everything) EXCEPT !.settled = TRUE]]

SwimlaneWrites ==
  [useAddSwimlane      |-> Makes({"swimlane"}, {<<"board">>}),
   useUpdateSwimlane   |-> Edits({"swimlane"}, {<<"board">>}),
   useDeleteSwimlane   |-> Edits({"swimlane"}, {<<"board">>}),
   useReorderSwimlanes |-> Edits({"swimlane"}, {<<"board">>})]

SprintApi ==
  [reads  |-> [useSprints |-> Read(<<"sprints", "project", "closed">>, {"sprint"})],
   writes |-> [useCreateSprint   |-> Makes({"sprint"}, Everything),
               useUpdateSprint   |-> Edits({"sprint"}, Everything),
               useStartSprint    |-> Edits({"sprint"}, Everything),
               useCompleteSprint |-> Edits({"sprint", "issue"}, Everything),
               useDeleteSprint   |-> Edits({"sprint", "issue"}, Everything),
               useSetIssueSprint |-> Edits({"issue"}, Everything),
               useSetEstimate    |-> Edits({"issue"}, Everything)]]

TeamApi ==
  [reads  |-> [useTeams |-> Read(<<"teams", "project">>, {"team"}),
               useTeam  |-> Read(<<"teams", "detail", "team">>, {"team", "teamMember"})],
   writes |-> [useCreateTeam       |-> Makes({"team"}, Everything),
               useUpdateTeam       |-> Edits({"team"}, Everything),
               useDeleteTeam       |-> Edits({"team", "issue", "board"}, Everything),
               useAddTeamMember    |-> Edits({"teamMember"}, Everything),
               useRemoveTeamMember |-> Edits({"teamMember"}, Everything),
               useSetIssueTeam     |-> Edits({"issue"}, Everything)]]

MilestoneApi ==
  [reads  |-> [useMilestones |-> Read(<<"milestones", "project", "closed">>, {"milestone", "issue"})],
   writes |-> [useCreateMilestone   |-> Makes({"milestone"}, Everything),
               useUpdateMilestone   |-> Edits({"milestone"}, Everything),
               useCloseMilestone    |-> Edits({"milestone"}, Everything),
               useReopenMilestone   |-> Edits({"milestone"}, Everything),
               useDeleteMilestone   |-> Edits({"milestone", "issue"}, Everything),
               useSetIssueMilestone |-> Edits({"issue"}, Everything)]]

VersionReads ==
  [useVersions     |-> Read(<<"versions", "project", "archived">>, {"version", "issue"}),
   useReleaseNotes |-> Read(<<"versions", "notes", "version">>, {"version", "issue"}),
   useComponents   |-> Read(<<"components", "project">>, {"component"})]

VersionWrites ==
  [useCreateVersion      |-> Makes({"version"}, Everything),
   useUpdateVersion      |-> Edits({"version"}, Everything),
   useVersionAction      |-> Edits({"version"}, Everything),
   useDeleteVersion      |-> Edits({"version", "issue"}, Everything),
   useSetIssueVersions   |-> Edits({"issue"}, Everything),
   useCreateComponent    |-> Makes({"component"}, Everything),
   useUpdateComponent    |-> Edits({"component"}, Everything),
   useDeleteComponent    |-> Edits({"component", "issue"}, Everything),
   useSetIssueComponents |-> Edits({"issue"}, Everything)]

PlanReads ==
  [usePlan      |-> Read(<<"plan", "project", "query">>,
                         IssueShape \cup {"link", "holiday", "absence", "teamMember"}),
   useLinkTypes |-> Read(<<"link-types">>, {}),
   useLinks     |-> Read(<<"issues", "links", "issueKey">>, {"link", "issue"})]

(* useAlign asks for a proposal and saves nothing.                         *)
PlanWrites ==
  [useSchedule     |-> Edits({"issue"}, Everything),
   useAlign        |-> Void(Edits({}, {})),
   useSchedulePlan |-> Edits({"issue"}, Everything),
   useAddLink      |-> Makes({"link"}, Everything),
   useRemoveLink   |-> Edits({"link"}, Everything)]

CalendarReads ==
  [useCalendarMonth |-> Read(<<"calendar", "project", "month">>,
                             {"issue", "sprint", "milestone", "version", "holiday", "absence"})]

ResourceApi ==
  [reads  |-> [useResources   |-> Read(<<"resources", "project", "from", "to">>,
                                       {"issue", "team", "allocation", "holiday", "absence", "workingWeek", "grouping"}),
               useAllocations |-> Read(<<"allocations", "project">>, {"allocation"})],
   writes |-> [useSetAllocation |-> Void(Edits({"allocation"}, {<<"allocations">>, <<"resources">>}))]]

AvailabilityReads ==
  [useHolidayCalendars |-> Read(<<"holiday-calendars">>, {"holidayCalendar"}),
   useHolidayCalendar  |-> Read(<<"holiday-calendars", "calendar">>, {"holidayCalendar", "holiday"}),
   useWorkingWeek      |-> Read(<<"working-week", "user">>, {"workingWeek", "holidayCalendar"}),
   useAbsences         |-> Read(<<"absences", "filter">>, {"absence"})]

CalendarWrite(makes, changes) ==
  Void(Write(makes, changes, {<<"holiday-calendars">>, <<"working-week">>}))

AvailabilityWrites ==
  [useCreateHolidayCalendar |-> CalendarWrite(TRUE, {"holidayCalendar"}),
   useUpdateHolidayCalendar |-> CalendarWrite(FALSE, {"holidayCalendar"}),
   useDeleteHolidayCalendar |-> CalendarWrite(FALSE, {"holidayCalendar", "holiday"}),
   useSetHolidays           |-> CalendarWrite(FALSE, {"holiday"}),
   useImportHolidays        |-> CalendarWrite(FALSE, {"holiday"}),
   useProposeNextYear       |-> Void(Edits({}, {})),
   useSetWorkingWeek        |-> CalendarWrite(FALSE, {"workingWeek"}),
   useRecordAbsence         |-> Void(Makes({"absence"}, {<<"absences">>})),
   useUpdateAbsence         |-> Void(Edits({"absence"}, {<<"absences">>})),
   useRemoveAbsence         |-> Void(Edits({"absence"}, {<<"absences">>}))]

-----------------------------------------------------------------------------
(* Reading the work: dashboards, saved searches, many issues at once.      *)
ReportReads ==
  [useDashboards         |-> Read(<<"reports", "dashboards", "project">>, {"dashboard", "widget"}),
   useReportKinds        |-> Read(<<"reports", "kinds", "project">>, {}),
   useReport             |-> Polled(<<"reports", "report", "project", "kind">>, {"issue", "sprint", "version", "milestone"}),
   useDashboardTemplates |-> Read(<<"reports", "templates", "project">>, {"dashboardTemplate"})]

ReportWrites ==
  [useCreateDashboard |-> Makes({"dashboard"}, {<<"reports">>}),
   useSaveTemplate    |-> Makes({"dashboardTemplate"}, {<<"reports">>}),
   useDeleteTemplate  |-> Edits({"dashboardTemplate"}, {<<"reports">>}),
   useDeleteDashboard |-> Edits({"dashboard"}, {<<"reports">>})]

(* The changes of a dashboard's widgets share one scope: each waits for    *)
(* the one before.                                                         *)
Scoped(write) == [write EXCEPT !.scoped = TRUE]

WidgetWrites ==
  [useAddWidget      |-> Scoped(Makes({"widget"}, {<<"reports">>})),
   useUpdateWidget   |-> Scoped(Edits({"widget"}, {<<"reports">>})),
   useRemoveWidget   |-> Scoped(Edits({"widget"}, {<<"reports">>})),
   useReorderWidgets |-> Scoped(Edits({"widget"}, {<<"reports">>}))]

ShareApi ==
  [reads  |-> [useShares |-> Read(<<"shares", "dashboard">>, {"share"}),
               useShared |-> Read(<<"shared", "token">>, {"share", "dashboard"})],
   writes |-> [useCreateShare |-> Makes({"share"}, {<<"shares">>}),
               useRevokeShare |-> Edits({"share"}, {<<"shares">>})]]

FilterReads ==
  [useSavedFilters    |-> Read(<<"filters">>, {"filter"}),
   useSavedFilter     |-> Read(<<"filters", "filter">>, {"filter"}),
   useBulkTransitions |-> Read(<<"bulk-transitions", "keys">>, {"issue", "workflow"}),
   useFilterIssues    |-> Read(<<"filters", "issues", "filter">>, IssueShape)]

FilterWrites ==
  [useCreateSavedFilter |-> Makes({"filter"}, {<<"filters">>}),
   useUpdateSavedFilter |-> Edits({"filter"}, {<<"filters">>}),
   useDeleteSavedFilter |-> Edits({"filter"}, {<<"filters">>}),
   useStarFilter        |-> Edits({"filter"}, {<<"filters">>}),
   useSubscribeFilter   |-> Edits({"filter"}, {<<"filters">>})]

(* A dry run of an import changes nothing; the real one tells everything.  *)
BulkWrites ==
  [useBulkEdit      |-> Edits({"issue", "label"}, Everything),
   useImportPreview |-> Void(Edits({}, {})),
   useImportIssues  |-> Void(Makes({"issue", "label"}, Everything)),
   useCloneIssue    |-> Makes({"issue", "link"}, Everything),
   useMoveIssue     |-> Edits({"issue"}, Everything)]

-----------------------------------------------------------------------------
(* Projects, workflows and who may do what.                                *)
ProjectReads ==
  [useStatusUpdates    |-> Read(<<"projects", "project", "status-updates">>, {"statusUpdate"}),
   useProjects         |-> Read(<<"projects", "page">>, {"project", "statusUpdate"}),
   useProjectSearch    |-> Read(<<"projects", "page">>, {"project", "statusUpdate"}),
   useProject          |-> Read(<<"projects", "project">>, {"project", "statusUpdate"}),
   useProjectTemplates |-> Read(<<"project-templates", "archived">>, {"projectTemplate"}),
   useKeyCheck         |-> Read(<<"projects", "key-check", "key", "name">>, {"project"})]

ProjectWrites ==
  [usePostStatusUpdate       |-> Makes({"statusUpdate"}, {<<"projects">>}),
   useCreateProjectTemplate  |-> Makes({"projectTemplate"}, {<<"project-templates">>}),
   useUpdateProjectTemplate  |-> Edits({"projectTemplate"}, {<<"project-templates">>}),
   useArchiveProjectTemplate |-> Edits({"projectTemplate"}, {<<"project-templates">>}),
   useRestoreProjectTemplate |-> Edits({"projectTemplate"}, {<<"project-templates">>}),
   useCreateProject          |-> Makes({"project"}, {<<"projects">>}),
   useUpdateProject          |-> Edits({"project", "grouping"}, {<<"projects">>}),
   useArchiveProject         |-> Edits({"project", "issue"}, Everything),
   useRestoreProject         |-> Edits({"project", "issue"}, Everything)]

WorkflowReads ==
  [useWorkflows        |-> Read(<<"workflows", "list", "page">>, {"workflow", "scheme"}),
   useWorkflow         |-> Read(<<"workflows", "workflow">>, {"workflow", "status"}),
   useRuleTypes        |-> Read(<<"workflows", "rule-types">>, {}),
   useSchemes          |-> Read(<<"workflows", "schemes", "page">>, {"scheme", "workflow"}),
   useProjectWorkflows |-> Read(<<"workflows", "project", "project">>, {"scheme", "workflow", "assignment"})]

WorkflowWrites ==
  [useCreateWorkflow       |-> Makes({"workflow"}, Everything),
   useSaveWorkflow         |-> Edits({"workflow"}, Everything),
   useCopyWorkflow         |-> Makes({"workflow"}, Everything),
   useDeleteWorkflow       |-> Edits({"workflow"}, Everything),
   useCreateScheme         |-> Makes({"scheme"}, Everything),
   useSaveScheme           |-> Edits({"scheme"}, Everything),
   useSetDefaultScheme     |-> Edits({"scheme"}, Everything),
   useDeleteScheme         |-> Edits({"scheme"}, Everything),
   useSetProjectAssignment |-> Edits({"assignment", "issue"}, Everything),
   useSetProjectScheme     |-> Edits({"assignment", "issue"}, Everything)]

AccessReads ==
  [useAccess      |-> Read(<<"access", "me">>, {"grant", "role", "groupMember"}),
   useRoles       |-> Read(<<"access", "roles">>, {"role", "grant"}),
   usePermissions |-> Forever(<<"access", "permissions">>, {}),
   useRoleName    |-> Read(<<"access", "roles">>, {"role", "grant"}),
   useGroups      |-> Read(<<"access", "groups">>, {"group"}),
   useGroup       |-> Read(<<"access", "group", "group">>, {"group", "groupMember"}),
   useAssignments |-> Read(<<"access", "assignments", "page">>, {"grant", "othersGrant", "role", "group"}),
   useProvider    |-> Read(<<"access", "provider">>, {"provider"})]

AccessWrites ==
  [useCreateGroup     |-> Makes({"group"}, Everything),
   useDeleteGroup     |-> Edits({"group", "grant"}, Everything),
   useAddToGroup      |-> Edits({"groupMember"}, Everything),
   useRemoveFromGroup |-> Edits({"groupMember"}, Everything),
   useGrantRole       |-> Edits({"grant"}, Everything),
   useRevokeRole      |-> Edits({"grant"}, Everything),
   useCreateRole      |-> Makes({"role"}, Everything),
   useUpdateRole      |-> Edits({"role"}, Everything),
   useDeleteRole      |-> Edits({"role", "grant"}, Everything),
   useSaveProvider    |-> Edits({"provider"}, Everything)]

AccessRequestApi ==
  [reads  |-> [useAccessRequest |-> Read(<<"access-requests", "request">>, {"accessRequest"})],
   writes |-> [useAskForAccess       |-> Asks({"newAccessRequest"}),
               useGrantAccessRequest |-> Void([Edits({"accessRequest", "othersGrant"}, {})
                                                EXCEPT !.puts = {<<"access-requests", "request">>}])]]
-----------------------------------------------------------------------------
(* People and the session.                                                 *)
PeopleReads ==
  [useMembers         |-> Read(<<"members", "page">>, {"account"}),
   useMemberSearch    |-> Read(<<"members", "page">>, {"account"}),
   useFindMentionable |-> Read(<<"members", "page">>, {"account"})]

(* useUserMutation: the accounts and the pickers.                          *)
UserWrite(makes, changes) == Void(Write(makes, changes, {<<"users">>, <<"members">>}))

UserApi ==
  [reads  |-> [useManagedUsers |-> Read(<<"users", "page">>, {"account", "othersFactor"}),
               useJoinRequests |-> Read(<<"users", "requests">>, {"joinRequest"})],
   writes |-> [useCreateUser         |-> UserWrite(TRUE, {"account"}),
               useUpdateUser         |-> UserWrite(FALSE, {"account"}),
               useSetUserPassword    |-> UserWrite(FALSE, {"password"}),
               useAdmitJoinRequest   |-> UserWrite(FALSE, {"joinRequest", "account"}),
               useDeclineJoinRequest |-> UserWrite(FALSE, {"joinRequest"})]]

(* The preview of an invitation is asked once per visit, and accepting     *)
(* spares it.                                                              *)
InviteApi ==
  [reads  |-> [useInvites       |-> Read(<<"invites">>, {"invite"}),
               useInvitePreview |-> Forever(<<"invite-preview", "token">>, {})],
   writes |-> [useCreateInvite   |-> Makes({"invite"}, {<<"invites">>}),
               useWithdrawInvite |-> Edits({"invite"}, {<<"invites">>}),
               useAcceptInvite   |-> [Makes({"invite", "session"}, Everything)
                                       EXCEPT !.spares = "invite-preview"]]]

Me == <<"auth", "me">>

AuthReads ==
  [useMe         |-> Read(Me, {"session", "profile", "installation", "factor", "factorRule"}),
   useSignupOpen |-> Read(<<"auth", "signup">>, {"signup"}),
   useApiTokens  |-> Read(<<"tokens">>, {"token"}),
   useSessions   |-> Read(<<"auth", "sessions">>, {"otherSession"})]

(* Signing out and erasing the account clear the cache whole; a reset      *)
(* password drops the session alone.  A sign-in that is challenged for a   *)
(* code tells nothing yet.                                                 *)
AuthWrites ==
  [useSignup               |-> Makes({"session"}, {Me}),
   useLogin                |-> Void(Edits({"session"}, {Me})),
   useRequestPasswordReset |-> Void(Edits({}, {})),
   useResetPassword        |-> Void([Edits({"session"}, {}) EXCEPT !.drops = {Me}]),
   useEraseMe              |-> Void([Edits({"session"}, {}) EXCEPT !.clears = TRUE]),
   useLogout               |-> Void([Edits({"session"}, {}) EXCEPT !.clears = TRUE])]

ProfileWrites ==
  [useCreateApiToken   |-> Makes({"token"}, {<<"tokens">>}),
   useRevokeApiToken   |-> Edits({"token"}, {<<"tokens">>}),
   useEndSession       |-> Edits({"otherSession"}, {<<"auth", "sessions">>}),
   useEndOtherSessions |-> Edits({"otherSession"}, {<<"auth", "sessions">>}),
   useUpdateProfile    |-> Void(Edits({"profile"}, {Me})),
   useChangeMyPassword |-> Edits({"otherSession"}, {<<"auth", "sessions">>}),
   useUploadAvatar     |-> Edits({"profile"}, Everything),
   useRemoveAvatar     |-> Edits({"profile"}, Everything)]

SecondFactorReads ==
  [useSecondFactorStatus |-> Read(<<"auth", "me", "second-factor">>, {"factor"}),
   useSecondFactorRule   |-> Read(<<"organization", "second-factor">>, {"factorRule"})]

(* Confirming tells nothing: the recovery codes are shown first, and       *)
(* useSecondFactorSettled reads the change once they are put away.         *)
SecondFactorWrites ==
  [useStartSecondFactor         |-> Void(Edits({}, {})),
   useConfirmSecondFactor       |-> Void(Edits({"factor"}, {<<"auth", "me", "second-factor">>, Me})),
   useRenewRecoveryCodes        |-> Void(Edits({"factor"}, {<<"auth", "me", "second-factor">>, Me})),
   useRemoveSecondFactor        |-> Void(Edits({"factor"}, {<<"auth", "me", "second-factor">>, Me})),
   useLoginSecondFactor         |-> Edits({"session"}, {Me}),
   useRequireSecondFactor       |-> Void(Edits({"factorRule"}, {<<"organization", "second-factor">>, Me})),
   useRemoveMembersSecondFactor |-> Edits({"othersFactor"}, {<<"users">>})]

OAuthReads ==
  [useConsent       |-> Forever(<<"oauth", "consent", "query">>, {}),
   useConnectedApps |-> Read(<<"oauth", "clients">>, {"app", "appSecret"})]

AppWrite(makes, changes) == Void(Write(makes, changes, {<<"oauth", "clients">>, <<"tokens">>}))

OAuthWrites ==
  [useDecideConsent            |-> Void(Edits({"consent"}, {})),
   useCreateConnectedApp       |-> AppWrite(TRUE, {"app"}),
   useUpdateConnectedApp       |-> AppWrite(FALSE, {"app", "token"}),
   useApproveConnectedApp      |-> AppWrite(FALSE, {"app"}),
   useRotateConnectedAppSecret |-> AppWrite(FALSE, {"appSecret"}),
   useDeleteConnectedApp       |-> AppWrite(FALSE, {"app", "token"})]

-----------------------------------------------------------------------------
(* The shell and the administration.                                       *)
ThemeApi ==
  [reads  |-> [useThemeExamples |-> Forever(<<"themes", "examples">>, {}),
               useThemes        |-> Read(<<"themes">>, {"theme", "chosenTheme"}),
               useTheme         |-> Read(<<"themes", "theme">>, {"theme"}),
               useActiveTheme   |-> Read(<<"themes", "active">>, {"theme", "chosenTheme"})],
   writes |-> [useCreateTheme      |-> Makes({"theme"}, {<<"themes">>}),
               useUpdateTheme      |-> Edits({"theme"}, {<<"themes">>}),
               useDeleteTheme      |-> Edits({"theme", "chosenTheme"}, {<<"themes">>}),
               useChooseTheme      |-> Edits({"chosenTheme"}, {<<"themes">>}),
               useSetDefaultTheme  |-> Edits({"chosenTheme"}, {<<"themes">>}),
               useImportTheme      |-> Makes({"theme"}, {<<"themes">>}),
               useUploadThemeAsset |-> Makes({"theme"}, {<<"themes">>}),
               useDeleteThemeAsset |-> Edits({"theme"}, {<<"themes">>})]]

InstallationApi ==
  [reads  |-> [useInstallation   |-> Read(<<"installation">>, {"installation"}),
               useConnectedTools |-> Read(<<"installation", "tools">>, {"app"}),
               useSuiteDemo      |-> Polled(<<"installation", "suite-demo">>, {"suiteDemo"})],
   writes |-> [useRenameInstallation |-> Void(Edits({"installation"}, {<<"installation">>, Me})),
               useAddDemoProject     |-> Makes({"project", "label", "workflow"}, Everything),
               useAddSuiteDemo       |-> Void([Edits({"suiteDemo"}, {})
                                                EXCEPT !.puts = {<<"installation", "suite-demo">>}])]]

NotificationApi ==
  [reads  |-> [useInbox                   |-> Read(<<"notifications", "list", "unread">>, {"notification"}),
               useUnreadCount             |-> Polled(<<"notifications", "unread">>, {"notification"}),
               useNotificationPreferences |-> Read(<<"notification-preferences">>, {"preferences"})],
   writes |-> [useMarkRead                    |-> Edits({"notification"}, {<<"notifications">>}),
               useSaveNotificationPreferences |-> Edits({"preferences"}, {<<"notification-preferences">>})]]

(* A confirmed proposal is a change made through the same door as any.     *)
AssistantApi ==
  [reads  |-> [useAssistantStatus |-> Read(<<"assistant">>, {})],
   writes |-> [useAsk             |-> Void(Edits({}, {})),
               useConfirmProposal |-> Makes({"issue", "comment", "comments"}, Everything)]]

AuditReads == [useAuditLog |-> Read(<<"audit", "filter">>, {"audit"})]

MetaReads == [useMeta |-> Read(<<"meta">>, {})]

AutomationReads ==
  [useAutomationCatalog |-> Read(<<"automation", "catalog">>, {}),
   useRules             |-> Read(<<"automation", "rules", "project">>, {"rule"}),
   useRuleRuns          |-> Read(<<"automation", "runs", "rule">>, {"ruleRun"}),
   useWebhooks          |-> Read(<<"webhooks">>, {"webhook"}),
   useDeliveries        |-> Read(<<"webhooks", "deliveries", "webhook">>, {"delivery"})]

AutomationWrites ==
  [useCreateRule |-> Makes({"rule"}, {<<"automation">>}),
   useUpdateRule |-> Edits({"rule"}, {<<"automation">>}),
   useDeleteRule |-> Edits({"rule", "ruleRun"}, {<<"automation">>}),
   useRunRule    |-> Makes({"ruleRun"}, {<<"automation">>})]

WebhookWrites ==
  [useCreateWebhook       |-> Makes({"webhook"}, {<<"webhooks">>}),
   useUpdateWebhook       |-> Edits({"webhook"}, {<<"webhooks">>}),
   useDeleteWebhook       |-> Edits({"webhook", "delivery"}, {<<"webhooks">>}),
   useRotateWebhookSecret |-> Edits({"webhook"}, {<<"webhooks">>}),
   useTestWebhook         |-> Makes({"delivery"}, {<<"webhooks">>}),
   useRedeliver           |-> Makes({"delivery"}, {<<"webhooks">>})]
-----------------------------------------------------------------------------
(* The desk, its portal and the door of it.                                *)
DeskReads ==
  [useRequestTypes     |-> Read(<<"desk", "request-types", "project">>, {"requestType"}),
   useDeskMailAddress  |-> Read(<<"desk", "mail-address", "project">>, {}),
   usePolicies         |-> Read(<<"desk", "policies", "project">>, {"policy"}),
   useQueue            |-> Polled(<<"desk", "queue", "project", "query">>, IssueShape \cup {"timer"}),
   useTimers           |-> Polled(<<"desk", "timers", "issueKey">>, {"timer", "policy"}),
   useArticles         |-> Read(<<"desk", "articles", "project">>, {"article"}),
   useCannedResponses  |-> Read(<<"desk", "canned", "project">>, {"canned"}),
   useIssueRating      |-> Read(<<"desk", "rating", "issueKey">>, {"rating"}),
   useBusinessCalendar |-> Read(<<"desk", "calendar", "project">>, {"businessCalendar", "holidayCalendar"}),
   useCompanies        |-> Read(<<"desk", "companies", "project">>, {"company", "companyMember"})]

PortalReads ==
  [usePortalArticles  |-> Read(<<"desk", "portal-articles", "project", "words">>, {"article"}),
   usePortalArticle   |-> Read(<<"desk", "portal-article", "article">>, {"article"}),
   useRatingPage      |-> Read(<<"rating", "token">>, {"rating"}),
   useDesks           |-> Read(<<"desk", "portal", "desks">>, {"requestType", "project"}),
   useMyRequests      |-> Read(<<"desk", "portal", "requests">>, {"issue", "status", "comments", "requestType", "company"}),
   useRequest         |-> Read(<<"desk", "portal", "request", "issueKey">>,
                               {"issue", "status", "comment", "comments", "requestType", "company", "team"}),
   useRequestWatchers |-> Read(<<"desk", "portal", "watchers", "issueKey">>, {"watcher"}),
   useDeskEntry       |-> Read(<<"desk", "entry", "project">>, {})]

(* useDeskMutation: the desk and the issues, and nothing awaited.          *)
DeskWrite(makes, changes) == Void(Write(makes, changes, {<<"desk">>, <<"issues">>}))

DeskWrites ==
  [useCreateRequestType    |-> DeskWrite(TRUE, {"requestType"}),
   useUpdateRequestType    |-> DeskWrite(FALSE, {"requestType"}),
   useDeleteRequestType    |-> DeskWrite(FALSE, {"requestType"}),
   useUpdatePolicy         |-> DeskWrite(FALSE, {"policy"}),
   useCreateArticle        |-> DeskWrite(TRUE, {"article"}),
   useUpdateArticle        |-> DeskWrite(FALSE, {"article"}),
   useDeleteArticle        |-> DeskWrite(FALSE, {"article"}),
   useCreateCanned         |-> DeskWrite(TRUE, {"canned"}),
   useUpdateCanned         |-> DeskWrite(FALSE, {"canned"}),
   useDeleteCanned         |-> DeskWrite(FALSE, {"canned"}),
   useRenderCanned         |-> Void(Edits({}, {})),
   useSaveBusinessCalendar |-> DeskWrite(FALSE, {"businessCalendar"}),
   useCreateCompany        |-> DeskWrite(TRUE, {"company"}),
   useUpdateCompany        |-> DeskWrite(FALSE, {"company"}),
   useDeleteCompany        |-> DeskWrite(FALSE, {"company", "companyMember"}),
   useAddCompanyMember     |-> DeskWrite(FALSE, {"companyMember"}),
   useRemoveCompanyMember  |-> DeskWrite(FALSE, {"companyMember"}),
   useAddNote              |-> DeskWrite(TRUE, {"comment", "comments"})]

PortalWrites ==
  [useRaiseRequest  |-> DeskWrite(TRUE, {"issue"}),
   useReply         |-> DeskWrite(TRUE, {"comment", "comments"}),
   useFollow        |-> DeskWrite(FALSE, {"watcher"}),
   useUnfollow      |-> DeskWrite(FALSE, {"watcher"}),
   useRate          |-> Edits({"rating"}, {<<"rating", "token">>}),
   useRequestCode   |-> Asks({"code"}),
   useEnterWithCode |-> Edits({"session"}, {Me}),
   useEnterOpenDoor |-> Edits({"session"}, {Me})]

-----------------------------------------------------------------------------
(* The whole layer.                                                        *)
AllReads ==
  IssueReads @@ StatusReads @@ IssueListReads @@ IssueTypeReads @@ RemoteLinkApi.reads
  @@ WatcherApi.reads @@ AttachmentApi.reads @@ LabelApi.reads @@ FieldReads
  @@ ArrangementApi.reads @@ GitReads @@ BoardReads @@ SprintApi.reads @@ TeamApi.reads
  @@ MilestoneApi.reads @@ VersionReads @@ PlanReads @@ CalendarReads @@ ResourceApi.reads
  @@ AvailabilityReads @@ ReportReads @@ ShareApi.reads @@ FilterReads @@ ProjectReads
  @@ WorkflowReads @@ AccessReads @@ AccessRequestApi.reads @@ PeopleReads @@ UserApi.reads
  @@ InviteApi.reads @@ AuthReads @@ SecondFactorReads @@ OAuthReads @@ ThemeApi.reads
  @@ InstallationApi.reads @@ NotificationApi.reads @@ AssistantApi.reads @@ AuditReads
  @@ MetaReads @@ AutomationReads @@ DeskReads @@ PortalReads

AllWrites ==
  IssueWrites @@ CommentWrites @@ StatusWrites @@ IssueTypeWrites @@ RemoteLinkApi.writes
  @@ WatcherApi.writes @@ AttachmentApi.writes @@ LabelApi.writes @@ FieldWrites
  @@ ArrangementApi.writes @@ GitWrites @@ BoardWrites @@ SwimlaneWrites @@ SprintApi.writes
  @@ TeamApi.writes @@ MilestoneApi.writes @@ VersionWrites @@ PlanWrites @@ ResourceApi.writes
  @@ AvailabilityWrites @@ ReportWrites @@ WidgetWrites @@ ShareApi.writes @@ FilterWrites
  @@ BulkWrites @@ ProjectWrites @@ WorkflowWrites @@ AccessWrites @@ AccessRequestApi.writes
  @@ UserApi.writes @@ InviteApi.writes @@ AuthWrites @@ ProfileWrites @@ SecondFactorWrites
  @@ OAuthWrites @@ ThemeApi.writes @@ InstallationApi.writes @@ NotificationApi.writes
  @@ AssistantApi.writes @@ AutomationWrites @@ WebhookWrites @@ DeskWrites @@ PortalWrites
=============================================================================
