--------------------------- MODULE ClientScreens ---------------------------
(****************************************************************************)
(* The pages of src/web/src/routes and the route tree: which components     *)
(* are on the screen together. A screen's queries are subscribed at the     *)
(* same time, so each of its changes has to reach each of them.             *)
(****************************************************************************)
EXTENDS ClientShell
AccessRequestPage ==
  Part({"useAccessRequest"},
       {Op("useGrantAccessRequest", {"waits", "shows"})},
       {})
AccessPage ==
  Part({},
       {},
       {GroupList, MemberList, ProviderSettings, RoleMatrix, RoleTable,
        SecondFactorRequirement})
AdminIndex == Part({"useMe"}, {}, {})
AdminLayout == Part({"useAccess"}, {}, {})
AuditPage == Part({"useAuditLog"}, {}, {})
SignupOffer == Part({"useSignupOpen"}, {}, {})
SignInPage == Part({}, {}, {LoginForm, SignupOffer})
LoginPage == Part({}, {}, {SignInPage})
SignupPage == Part({"useSignupOpen"}, {}, {SignupForm})
OrgAutomationPage == Part({"useAccess", "useMe"}, {}, {RulesPanel})
ProjectAutomationPage == Part({"useAccess"}, {}, {RulesPanel})
BoardPage ==
  Part({"useAccess", "useBoards"},
       {},
       {BoardPicker, BoardView, NewBoardForm, SwimlaneEditor})
CalendarPage == Part({"useAccess"}, {}, {MonthGrid})
EditApp ==
  Part({},
       {Op("useUpdateConnectedApp", {"waits", "shows", "closes"})},
       {})
ConnectedAppsPage ==
  Part({"useConnectedApps"},
       {Op("useCreateConnectedApp", {"waits", "shows", "closes"}),
        Op("useApproveConnectedApp", {"once"}),
        Op("useRotateConnectedAppSecret", {"once"}),
        Op("useDeleteConnectedApp", {"asks"})},
       {EditApp})
DashboardPage ==
  Part({"useAccess", "useDashboards", "useSavedFilters"},
       {},
       {DashboardGrid, NewDashboard, SaveTemplateDialog, ShareDialog})
DeskEntryPage ==
  Part({"useDeskEntry", "useMe"},
       {},
       {DeskEntryForm, OpenDoorForm})
FieldsPage == Part({"useAccess"}, {}, {FieldList})
FiltersPage ==
  Part({"useMe", "useSavedFilters"},
       {Op("useStarFilter", {}), Op("useUpdateSavedFilter", {"once"}),
        Op("useDeleteSavedFilter", {"asks"}), Op("useSubscribeFilter", {})},
       {})
HierarchyPage == Part({"useProjectHierarchy"}, {}, {})
NewCalendarForm ==
  Part({},
       {Op("useCreateHolidayCalendar", {"waits", "shows", "clears"})},
       {})
RenameCalendarDialog ==
  Part({},
       {Op("useUpdateHolidayCalendar", {"waits", "shows", "closes"})},
       {})
HolidaysPage ==
  Part({"useAccess", "useHolidayCalendars"},
       {Op("useUpdateHolidayCalendar", {"once", "shows"}),
        Op("useDeleteHolidayCalendar", {"asks", "shows"})},
       {CalendarDays, NewCalendarForm, RenameCalendarDialog})
ImportPage ==
  Part({},
       {Op("useImportPreview", {"waits", "shows"}),
        Op("useImportIssues", {"waits", "shows"})},
       {PersonPicker, WordsCard})
InboxPage ==
  Part({"useInbox"},
       {Op("useMarkRead", {"waits"}), Op("useMarkRead", {})},
       {})
SuiteDemoCard ==
  Part({"useSuiteDemo"},
       {Op("useAddSuiteDemo", {"waits", "shows"})},
       {})
DemoProject ==
  Part({},
       {Op("useAddDemoProject", {"waits", "shows", "async", "leaves"})},
       {SuiteDemoCard})
RenameForm ==
  Part({},
       {Op("useRenameInstallation", {"waits", "shows", "async"})},
       {})
InstallationPage ==
  Part({"useAccess", "useInstallation"},
       {},
       {DemoProject, RenameForm})
NewAccount ==
  Part({},
       {Op("useAcceptInvite", {"waits", "shows", "async", "leaves"})},
       {})
Accept ==
  Part({"useMe"},
       {Op("useAcceptInvite", {"waits", "shows", "async", "leaves"}),
        Op("useLogout", {"waits"})},
       {NewAccount})
InvitePage == Part({"useInvitePreview"}, {}, {Accept})
IssueArrangementPage == Part({"useAccess"}, {}, {ProjectArrangement})
IssueDetail == Part({}, {}, {IssuePage})
EditTypeDialog ==
  Part({},
       {Op("useUpdateIssueType", {"waits", "shows", "closes"})},
       {})
NewTypeForm ==
  Part({},
       {Op("useCreateIssueType", {"waits", "shows", "clears"})},
       {})
IssueTypesPage ==
  Part({"useIssueTypes"},
       {Op("useRetireIssueType", {"once"}),
        Op("useReinstateIssueType", {"once"}),
        Op("useDeleteIssueType", {"asks"})},
       {EditTypeDialog, NewTypeForm})
LabelRow == Part({}, {Op("useUpdateLabel", {"waits", "shows", "closes"})}, {})
LabelsPage ==
  Part({"useAccess", "useLabels"},
       {Op("useDeleteLabel", {"asks"})},
       {LabelRow})
MilestonesPage == Part({}, {}, {MilestoneList})
ConsentCard == Part({}, {Op("useDecideConsent", {"shows", "leaves"})}, {})
ConsentPage == Part({"useConsent"}, {}, {ConsentCard})
OrgFieldsPage == Part({"useAccess"}, {}, {FieldList})
OrgIssueArrangementPage == Part({"useAccess"}, {}, {OrgArrangement})
Home == Part({"useIssues", "useMe", "useProjects"}, {}, {})
ForgotPasswordForm ==
  Part({},
       {Op("useRequestPasswordReset", {"waits", "shows"})},
       {})
ForgotPasswordPage == Part({}, {}, {ForgotPasswordForm})
ResetPasswordForm ==
  Part({},
       {Op("useResetPassword", {"waits", "shows", "closes"})},
       {})
ResetPasswordPage == Part({}, {}, {ResetPasswordForm})
PlanPage ==
  Part({"useAccess", "usePlan"},
       {Op("useAlign", {"waits", "shows"}),
        Op("useSchedulePlan", {"waits", "shows", "closes"}),
        Op("useSchedulePlan", {"once", "shows"}), Op("useAlign", {"mutes"}),
        Op("useSchedulePlan", {"once", "shows"})},
       {DependencyGraph, QueryInput, Timeline})
ArticlePage == Part({"usePortalArticle"}, {}, {})
ArticleSearch == Part({"usePortalArticles"}, {}, {})
Followers ==
  Part({"useMe", "useRequestWatchers"},
       {Op("useFollow", {"waits", "shows", "clears"}),
        Op("useUnfollow", {"shows"})},
       {})
MyRequests == Part({"useMe", "useMyRequests"}, {}, {})
RaiseRequest ==
  Part({"useDesks"},
       {Op("useRaiseRequest", {"waits", "shows", "async", "leaves", "follows"}),
        Op("useUploadAttachment", {"waits", "shows", "async"})},
       {ArticleSearch})
RaisedBy == Part({"useMe"}, {}, {})
RequestPage ==
  Part({"useDesks", "useRequest"},
       {Op("useReply", {"waits", "shows", "clears"})},
       {AttachmentPanel, Followers, RaisedBy})
ChangePassword ==
  Part({},
       {Op("useChangeMyPassword", {"waits", "shows", "clears"})},
       {})
NotificationSettings ==
  Part({"useNotificationPreferences"},
       {Op("useSaveNotificationPreferences", {"waits", "shows", "clears"})},
       {})
YourAbsences == Part({"useAbsences"}, {}, {AbsenceEditor})
YourData ==
  Part({},
       {Op("useEraseMe", {"waits", "asks", "shows", "leaves"})},
       {})
YourWeek == Part({"useWorkingWeek"}, {}, {})
ProfilePage ==
  Part({"useMe"},
       {Op("useUpdateProfile", {"waits", "shows"}),
        Op("useUploadAvatar", {"waits", "shows"}),
        Op("useRemoveAvatar", {"waits", "shows"})},
       {ActiveSessions, ChangePassword, NotificationSettings,
        SecondFactorSettings, YourAbsences, YourData, YourWeek})
ProjectDetail ==
  Part({"useAccess", "useIssues", "useMilestones", "useProject"},
       {},
       {CreateIssueDialog, HistoryDialog, LabelInput, PostDialog, QueryInput})
ProjectIssueTypesTab ==
  Part({"useAccess", "useIssueTypes", "useProjectIssueTypes"},
       {Op("useSetProjectIssueTypes", {"waits", "shows", "clears"})},
       {})
GeneralTab ==
  Part({"useAccess", "useProject"},
       {Op("useUpdateProject", {"waits", "shows"}),
        Op("useArchiveProject", {"waits", "shows"}),
        Op("useRestoreProject", {"waits", "shows"})},
       {PersonPicker, PlanningSettings, ShareSettings})
ProjectSettingsLayout == Part({"useAccess", "useProject"}, {}, {})
ProjectTemplatesPage ==
  Part({"useProjectTemplates"},
       {Op("useCreateProjectTemplate", {"waits"}),
        Op("useArchiveProjectTemplate", {"asks"}),
        Op("useRestoreProjectTemplate", {})},
       {TemplateEditor})
ProjectWorkflowsPage == Part({}, {}, {ProjectWorkflows})
ProjectLayout == Part({"useAccess", "useProject"}, {}, {})
CreateProjectForm ==
  Part({"useKeyCheck"},
       {Op("useCreateProject", {"waits", "shows", "closes", "leaves"})},
       {TemplateChooser})
ProjectsPage ==
  Part({"useAccess", "useProjects"},
       {Op("useArchiveProject", {"once"}), Op("useRestoreProject", {"once"})},
       {CreateProjectForm})
QueuesPage == Part({"useCompanies", "useQueue"}, {}, {})
RatePage == Part({"useRatingPage"}, {Op("useRate", {"waits", "shows"})}, {})
ComponentsPage == Part({"useAccess"}, {}, {ComponentList})
ReleasesPage == Part({"useAccess"}, {}, {ReleaseList})
RepositoriesPage == Part({"useAccess"}, {}, {RepositoryList})
ResourcesPage ==
  Part({"useAccess", "useProject", "useResources"},
       {AlsoTells(Op("useUpdateProject", {"waits", "shows"}), {<<"resources">>})},
       {})
SavedFilterPage == Part({"useSavedFilter"}, {}, {})
SearchPage ==
  Part({"useIssues", "useMe", "useSavedFilters"},
       {},
       {BulkBar, QueryInput, SavedFilterBar})
EditRequestType ==
  Part({},
       {Op("useUpdateRequestType", {"waits", "shows", "closes"})},
       {})
PolicyEditor == Part({}, {Op("useUpdatePolicy", {"waits", "shows"})}, {})
Policies == Part({"usePolicies"}, {}, {PolicyEditor})
RequestTypes ==
  Part({"useProjectIssueTypes", "useRequestTypes", "useTeams"},
       {Op("useCreateRequestType", {"waits", "shows", "clears"}),
        Op("useDeleteRequestType", {"waits", "asks", "shows"})},
       {EditRequestType})
ServiceDeskPage ==
  Part({"useAccess"},
       {},
       {BusinessHours, CannedResponses, Companies, Door, KnowledgeBase,
        Policies, RequestTypes})
SettingsHub == Part({"useMe"}, {}, {})
SharedDashboardPage == Part({"useShared"}, {}, {PastBurndown, useWidgetReport})
SprintBoardPage == Part({"useSprints"}, {}, {BoardView})
SprintsPage == Part({}, {}, {SprintPlanning})
TeamsPage == Part({}, {}, {TeamList})
EditorPage == Part({"useTheme"}, {}, {ThemeEditor})
ThemesPage ==
  Part({"useAccess", "useActiveTheme", "useMe", "useThemes"},
       {Op("useChooseTheme", {"once", "shows"}),
        Op("useSetDefaultTheme", {"once", "shows"}),
        Op("useImportTheme", {"waits", "shows"}),
        Op("useUpdateTheme", {"once", "shows"}),
        Op("useDeleteTheme", {"asks", "shows"})},
       {})
TokensPage ==
  Part({"useApiTokens"},
       {Op("useCreateApiToken", {"waits", "shows", "clears"}),
        Op("useRevokeApiToken", {"waits", "asks"})},
       {ProjectPicker})
UnwatchPage == Part({}, {Op("useUnwatch", {"waits", "shows"})}, {})
UsersPage == Part({"useAccess"}, {}, {JoinRequests, NewUserForm, UserTable})
DeliveryLog == Part({"useDeliveries"}, {Op("useRedeliver", {"waits"})}, {})
WebhooksPage ==
  Part({"useAutomationCatalog", "useWebhooks"},
       {Op("useCreateWebhook", {"waits", "shows", "closes"}),
        Op("useUpdateWebhook", {"once"}), Op("useDeleteWebhook", {"asks"}),
        Op("useRotateWebhookSecret", {"once"}), Op("useTestWebhook", {"once"})},
       {DeliveryLog})
DesignerPage == Part({}, {}, {WorkflowDesigner})
DesignExistingPage == Part({}, {}, {DesignerPage})
useCanConfigure == Part({"useAccess"}, {}, {})
SchemesTab == Part({}, {}, {SchemeCards, useCanConfigure})
StatusesTab == Part({}, {}, {StatusCards, useCanConfigure})
WorkflowsTab == Part({}, {}, {WorkflowCards, useCanConfigure})

(* The route tree: the pages under each layout. *)
PublicPages ==
  {LoginPage, SignupPage, InvitePage, ForgotPasswordPage, ResetPasswordPage,
   DeskEntryPage, UnwatchPage, RatePage, SharedDashboardPage, ConsentPage}

AgentPages ==
  {ShellNotFound, Home, ProjectsPage, SearchPage, IssueDetail,
   AccessRequestPage, SettingsHub, ProfilePage, InboxPage, FiltersPage,
   SavedFilterPage, TokensPage, ThemesPage, EditorPage}

PortalPages ==
  {MyRequests, RaiseRequest, RequestPage, ArticlePage}

ProjectPagesOf ==
  {ProjectDetail, BoardPage, SprintBoardPage, HierarchyPage, PlanPage,
   CalendarPage, ResourcesPage, SprintsPage, MilestonesPage, TeamsPage,
   ReleasesPage, QueuesPage, DashboardPage, ServiceDeskPage}

ProjectSettingsPages ==
  {GeneralTab, ProjectWorkflowsPage, FieldsPage, IssueArrangementPage,
   ProjectIssueTypesTab, ComponentsPage, RepositoriesPage,
   ProjectAutomationPage, ImportPage}

AdminPages ==
  {AdminIndex, InstallationPage, AccessPage, UsersPage, HolidaysPage,
   WorkflowsTab, StatusesTab, SchemesTab, DesignerPage, DesignExistingPage,
   IssueTypesPage, ProjectTemplatesPage, LabelsPage, OrgAutomationPage,
   OrgFieldsPage, OrgIssueArrangementPage, ConnectedAppsPage, WebhooksPage,
   AuditPage}

Under(layouts, pages) == {Part({}, {}, layouts \cup {page}) : page \in pages}

(* A page stands in its layouts, and they in a shell: a customer of the    *)
(* desk gets the portal's, everybody else the agents'.                     *)
Screens ==
  PublicPages
  \cup Under({AppShell}, {EnrolmentRequired})
  \cup Under({AppShell, AgentShell}, AgentPages)
  \cup Under({AppShell, PortalShell}, PortalPages)
  \cup Under({AppShell, AgentShell, ProjectLayout}, ProjectPagesOf)
  \cup Under({AppShell, AgentShell, ProjectLayout, ProjectSettingsLayout}, ProjectSettingsPages)
  \cup Under({AppShell, AgentShell, AdminLayout}, AdminPages)
=============================================================================
