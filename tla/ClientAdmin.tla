---------------------------- MODULE ClientAdmin ----------------------------
(****************************************************************************)
(* The components of accounts, access, workflows, themes, automation and    *)
(* the service desk, in the same form as ClientWork.                        *)
(****************************************************************************)
EXTENDS ClientWork

(* features/access *)
GroupCard ==
  Part({"useGroup"},
       {Op("useAddToGroup", {"waits", "shows", "early"}),
        Op("useRemoveFromGroup", {"asks", "shows"}),
        Op("useDeleteGroup", {"waits", "asks", "shows"})},
       {PersonPicker})
NewGroup == Part({}, {Op("useCreateGroup", {"waits", "shows", "clears"})}, {})
GroupList == Part({"useGroups"}, {}, {GroupCard, NewGroup})
PendingInvites ==
  Part({"useInvites"},
       {Op("useWithdrawInvite", {"asks", "shows"})},
       {})
InvitePanel ==
  Part({},
       {Op("useCreateInvite", {"waits", "shows", "clears"})},
       {PendingInvites})
MemberList == Part({"useMembers"}, {}, {InvitePanel})
ProviderSettings ==
  Part({"useProvider"},
       {Op("useSaveProvider", {"waits", "shows"})},
       {})
NewRoleDialog ==
  Part({},
       {Op("useCreateRole", {"waits", "shows", "closes"})},
       {})
RenameRoleDialog ==
  Part({},
       {Op("useUpdateRole", {"waits", "shows", "closes"})},
       {})
RoleMatrix ==
  Part({"useAccess", "usePermissions", "useRoles"},
       {Op("useUpdateRole", {"waits", "shows"}),
        Op("useDeleteRole", {"asks", "shows"})},
       {NewRoleDialog, RenameRoleDialog})
RoleAssignmentRow == Part({"useRoleName"}, {}, {})
GrantForm ==
  Part({"useGroups", "useRoles"},
       {Op("useGrantRole", {"waits", "shows"})},
       {PersonPicker, ProjectPicker})
RoleTable ==
  Part({"useAssignments", "useRoleName", "useRoles"},
       {Op("useRevokeRole", {"asks", "shows"})},
       {GrantForm, RoleAssignmentRow})
SecondFactorRequirement ==
  Part({"useSecondFactorRule"},
       {Op("useRequireSecondFactor", {"waits", "shows", "clears"})},
       {})

(* features/arrange *)
OrgArrangement ==
  Part({"useOrgArrangements", "useOrgFields"},
       {Op("useSetOrgArrangement", {"waits", "shows"})},
       {})
ProjectArrangement ==
  Part({"useArrangements", "useProjectFields"},
       {Op("useSetProjectArrangement", {"waits", "shows"})},
       {})

(* features/auth *)
ActiveSessions ==
  Part({"useSessions"},
       {Op("useEndSession", {"asks", "shows"}),
        Op("useEndOtherSessions", {"waits", "asks", "shows"})},
       {})
SecondFactorStep ==
  Part({},
       {Op("useLoginSecondFactor", {"waits", "shows", "leaves"})},
       {})
LoginForm ==
  Part({},
       {Op("useLogin", {"waits", "shows", "leaves"})},
       {SecondFactorStep})
SignupForm == Part({}, {Op("useSignup", {"waits", "shows", "leaves"})}, {})
Enrolled ==
  Part({},
       {Op("useRenewRecoveryCodes", {"waits", "shows", "clears"}),
        Op("useRemoveSecondFactor", {"waits", "shows", "clears"})},
       {})
Enrolment ==
  Part({},
       {Op("useStartSecondFactor", {"waits", "shows"}),
        Op("useConfirmSecondFactor", {"waits", "shows", "later"})},
       {})
EnrolmentRequired ==
  Part({"useMe"},
       {Op("useLogout", {"waits", "leaves"})},
       {Enrolment})
SecondFactorSettings ==
  Part({"useSecondFactorStatus"},
       {},
       {Enrolled, Enrolment})

(* features/automation *)
RunLog == Part({"useRuleRuns"}, {}, {})
RulesPanel ==
  Part({"useAutomationCatalog", "useRules", "useWebhooks"},
       {Op("useCreateRule", {"waits", "shows", "closes"}),
        Op("useUpdateRule", {"waits", "shows", "closes"}),
        Op("useDeleteRule", {"asks"}), Op("useRunRule", {"once"})},
       {LabelInput, RunLog})

(* features/availability *)
CalendarDays ==
  Part({"useHolidayCalendar"},
       {Op("useSetHolidays", {"waits", "shows", "clears"}),
        Op("useImportHolidays", {"waits", "asks", "shows", "clears"}),
        Op("useProposeNextYear", {"waits", "shows"})},
       {})
WorkingWeekForm ==
  Part({"useHolidayCalendars"},
       {Op("useSetWorkingWeek", {"waits", "shows", "closes"})},
       {})
WorkingWeekDialog == Part({"useWorkingWeek"}, {}, {WorkingWeekForm})

(* features/desk *)
CompanyCard ==
  Part({},
       {Op("useUpdateCompany", {"waits", "shows", "clears"}),
        Op("useDeleteCompany", {"asks", "shows"}),
        Op("useAddCompanyMember", {"waits", "shows", "clears"}),
        Op("useRemoveCompanyMember", {"shows"})},
       {})
Companies ==
  Part({"useCompanies"},
       {Op("useCreateCompany", {"waits", "shows", "clears"})},
       {CompanyCard})
DeskEntryForm ==
  Part({},
       {Op("useRequestCode", {"waits", "shows"}),
        Op("useEnterWithCode", {"waits", "shows", "leaves"})},
       {})
OpenDoorForm ==
  Part({},
       {Op("useEnterOpenDoor", {"waits", "shows", "leaves"})},
       {})
BusinessHours ==
  Part({"useBusinessCalendar", "useHolidayCalendars", "usePolicies"},
       {Op("useSaveBusinessCalendar", {"waits", "shows", "clears"}),
        Op("useUpdatePolicy", {})},
       {})
CannedResponses ==
  Part({"useCannedResponses"},
       {Op("useCreateCanned", {"waits", "shows", "clears"}),
        Op("useUpdateCanned", {"waits", "shows", "closes", "stays"}),
        Op("useDeleteCanned", {"asks"})},
       {})
Door ==
  Part({"useDeskMailAddress", "useProject", "useRequestTypes"},
       {Op("useUpdateProject", {"waits", "shows", "clears"})},
       {})
KnowledgeBase ==
  Part({"useArticles"},
       {Op("useCreateArticle", {"waits", "shows", "clears"}),
        Op("useUpdateArticle", {"waits", "shows", "closes", "stays"}),
        Op("useUpdateArticle", {"shows"}), Op("useDeleteArticle", {"asks"})},
       {})

(* features/import *)
WordsCard == Part({"useProjectIssueTypes", "useStatuses"}, {}, {})

(* features/themes *)
BackdropEffect == Part({"useActiveTheme"}, {}, {})
ThemeLoader == Part({"useActiveTheme"}, {}, {})
FilesTab ==
  Part({},
       {Op("useUploadThemeAsset", {"waits", "shows"}),
        Op("useDeleteThemeAsset", {"waits", "asks", "shows"})},
       {})
StartFrom == Part({"useThemeExamples"}, {}, {})
ThemeEditor ==
  Part({},
       {Op("useCreateTheme", {"waits", "shows", "leaves"}),
        Op("useUpdateTheme", {"waits", "shows"}),
        Op("useChooseTheme", {"waits", "shows"})},
       {FilesTab, StartFrom})

(* features/users *)
JoinRequests ==
  Part({"useJoinRequests"},
       {Op("useAdmitJoinRequest", {"waits", "shows"}),
        Op("useDeclineJoinRequest", {"waits", "shows"})},
       {})
NewUserForm ==
  Part({},
       {Op("useCreateUser", {"waits", "shows", "clears"})},
       {})
PasswordDialog ==
  Part({},
       {Op("useSetUserPassword", {"waits", "shows", "closes"})},
       {})
RenameUserDialog ==
  Part({},
       {Op("useUpdateUser", {"waits", "shows", "closes"})},
       {})
RoleDialog == Part({}, {Op("useUpdateUser", {"waits", "shows", "closes"})}, {})
UserTable ==
  Part({"useManagedUsers", "useMe"},
       {Op("useUpdateUser", {"asks"}), Op("useUpdateUser", {"once"}),
        Op("useRemoveMembersSecondFactor", {"asks"})},
       {PasswordDialog, RenameUserDialog, RoleDialog, WorkingWeekDialog})

(* features/workflows *)
WorkflowPicker == Part({"useWorkflows"}, {}, {})
SchemePicker == Part({"useSchemes"}, {}, {})
SchemeChoice ==
  Part({"useSchemes"},
       {Op("useSetProjectScheme", {"waits", "shows"})},
       {SchemePicker})
WorkflowGraph == Part({"useAccess", "useStatuses", "useWorkflow"}, {}, {})
ProjectWorkflows ==
  Part({"useAccess", "useProjectWorkflows"},
       {Op("useSetProjectAssignment", {"waits", "shows"})},
       {SchemeChoice, WorkflowGraph, WorkflowPicker})
SchemeEditor ==
  Part({"useIssueTypes"},
       {Op("useCreateScheme", {"waits", "shows", "closes"}),
        Op("useSaveScheme", {"waits", "shows", "closes"})},
       {WorkflowPicker})
NewStatusForm ==
  Part({},
       {Op("useCreateStatus", {"waits", "shows", "clears"})},
       {})
WorkflowDesigner ==
  Part({"useRuleTypes", "useStatuses", "useWorkflow"},
       {Op("useCreateWorkflow", {"waits", "shows", "leaves"}),
        Op("useSaveWorkflow", {"waits", "shows", "leaves"})},
       {LabelInput, NewStatusForm})
SchemeCard ==
  Part({},
       {Op("useSetDefaultScheme", {"waits", "shows"}),
        Op("useDeleteScheme", {"asks", "shows"})},
       {})
SchemeCards == Part({"useSchemes"}, {}, {SchemeCard, SchemeEditor})
StatusCards == Part({"useStatuses"}, {}, {NewStatusForm})
WorkflowCard ==
  Part({},
       {Op("useCopyWorkflow", {"shows"}),
        Op("useDeleteWorkflow", {"asks", "shows"})},
       {})
WorkflowCards ==
  Part({"useSchemes", "useStatuses", "useWorkflows"},
       {},
       {WorkflowCard})
=============================================================================
