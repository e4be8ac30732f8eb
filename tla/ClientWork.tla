----------------------------- MODULE ClientWork -----------------------------
(****************************************************************************)
(* The screens of the daily work, as what they mount: for every component   *)
(* of src/web/src/features about issues, boards, sprints, plans, releases,  *)
(* dashboards, searches and projects, the queries it keeps subscribed, the  *)
(* changes its controls make and how each control behaves, and the          *)
(* components it renders.                                                   *)
(****************************************************************************)
EXTENDS ClientApi

(* What a control does with its change, one word per behaviour:            *)
(*   waits   it is disabled while the change is shown under way            *)
(*   locks   a ref refuses a second press until the change is answered     *)
(*   asks    it asks for confirmation first (useConfirm)                   *)
(*   once    it goes away with the press: a menu item, a drop, a toast     *)
(*   shows   the component says the failure itself (error, onError)        *)
(*   mutes   it takes the failure and says nothing                         *)
(*   clears  what was filled in is emptied by the answer                   *)
(*   closes  its dialog or form goes away with the answer                  *)
(*   lent    what closes it belongs to a component that outlives it        *)
(*   leaves  the answer leaves the page                                    *)
(*   early   what was filled in is emptied by the press                    *)
(*   async   it awaits mutateAsync, which goes on when it is unmounted     *)
(*   stays   its component outlives the dialog it is in                    *)
(*   keeps   what is filled in is kept as a draft, there when opened again *)
(*   resets  the mutation is reset when the dialog opens again             *)
(*   follows the call is followed by others, one for each piece it left    *)
(*   later   the cache is told when the reader puts the answer away        *)
(* "also" is what the component itself declares old beside the hook.       *)
Op(write, how) == [write |-> write, how |-> how, also |-> {}]

AlsoTells(op, prefixes) == [op EXCEPT !.also = prefixes]

(* A component: its own queries and changes, and those of what it renders. *)
Part(reads, ops, parts) ==
  [reads |-> reads \cup UNION {part.reads : part \in parts},
   ops   |-> ops \cup UNION {part.ops : part \in parts}]

(* features/people *)
PersonPicker == Part({"useMemberSearch"}, {}, {})

(* features/projects *)
ProjectPicker == Part({"useProject", "useProjectSearch"}, {}, {})

(* features/attachments *)
AttachmentPanel ==
  Part({"useAttachments", "useMe"},
       {Op("useUploadAttachment", {"waits", "shows"}),
        Op("useDeleteAttachment", {"asks", "shows"})},
       {})

(* features/labels *)
LabelInput == Part({"useLabelSearch"}, {}, {})

(* features/availability *)
AbsenceForm ==
  Part({},
       {Op("useRecordAbsence", {"waits", "shows", "clears"}),
        Op("useUpdateAbsence", {"waits", "shows", "closes"})},
       {})
AbsenceEditor ==
  Part({},
       {Op("useRemoveAbsence", {"asks", "shows"})},
       {AbsenceForm})
AbsenceDialog == Part({"useAbsences"}, {}, {AbsenceEditor})

(* features/board *)
ManageBoard ==
  Part({},
       {Op("useUpdateBoard", {"waits", "shows", "closes"}),
        Op("useDeleteBoard", {"waits", "asks", "shows", "async", "leaves"})},
       {})
BoardPicker ==
  Part({"useBoards", "useTeams"},
       {Op("useCreateBoard", {"waits", "shows"})},
       {ManageBoard})
BoardView ==
  Part({"useBoard", "useBoardById", "useMe", "useSprintBoard"},
       {Op("useMoveCard", {"once", "shows"})},
       {})
NewBoardForm ==
  Part({"useTeams"},
       {Op("useCreateBoard", {"waits", "shows", "closes"})},
       {})
AddSwimlaneForm ==
  Part({},
       {Op("useAddSwimlane", {"waits", "shows", "closes"})},
       {})
FinishedWork == Part({}, {Op("useUpdateBoard", {"waits", "shows"})}, {})
SwimlaneRow ==
  Part({},
       {Op("useUpdateSwimlane", {"waits", "shows"}),
        Op("useDeleteSwimlane", {"waits", "asks"})},
       {})
SwimlaneEditor ==
  Part({"useBoardById", "useProjectStatuses"},
       {Op("useUpdateBoard", {"shows"}),
        Op("useReorderSwimlanes", {"waits", "shows"})},
       {AddSwimlaneForm, FinishedWork, SwimlaneRow})

(* features/calendar *)
MonthGrid == Part({"useCalendarMonth"}, {Op("useSchedule", {"shows"})}, {})

(* features/dashboard *)
AddWidget ==
  Part({"useReportKinds"},
       {Op("useAddWidget", {"shows"})},
       {})
useWidgetReport == Part({"useReport"}, {}, {})
FilterTile ==
  Part({"useIssueTypes", "useMilestones", "useSavedFilters", "useTeams"},
       {},
       {PersonPicker})
PastBurndown == Part({"useReport"}, {}, {})
MilestoneSettings == Part({"useMilestones"}, {}, {})
VersionSettings == Part({"useVersions"}, {}, {})
DashboardGrid ==
  Part({"useReport", "useReportKinds"},
       {Op("useRemoveWidget", {"shows"}), Op("useAddWidget", {"once"}),
        Op("useReorderWidgets", {"shows"}), Op("useUpdateWidget", {"shows"}),
        Op("useDeleteDashboard", {"waits", "asks", "shows"})},
       {AddWidget, FilterTile, MilestoneSettings, PastBurndown,
        VersionSettings, useWidgetReport})
DashboardTemplateChooser ==
  Part({"useDashboardTemplates"},
       {Op("useDeleteTemplate", {"asks"})},
       {})
NewDashboard ==
  Part({},
       {Op("useCreateDashboard", {"waits", "shows", "closes"})},
       {DashboardTemplateChooser})
SaveTemplateDialog ==
  Part({},
       {Op("useSaveTemplate", {"waits", "shows", "closes", "stays"})},
       {})
ShareDialog ==
  Part({"useShares"},
       {Op("useCreateShare", {"waits", "shows", "clears", "stays"}),
        Op("useRevokeShare", {"asks", "stays"})},
       {})

(* features/fields *)
FieldDefinitionRow ==
  Part({},
       {Op("useUpdateField", {"waits", "shows", "closes"})},
       {})
NewFieldForm ==
  Part({"useFieldKinds"},
       {Op("useCreateField", {"waits", "shows", "clears", "closes"}),
        Op("useCreateOrgField", {"waits", "shows", "clears", "closes"})},
       {})
FieldList ==
  Part({"useFieldKinds", "useOrgFields", "useProjectFields"},
       {Op("useDeleteField", {"asks", "shows"}),
        Op("usePromoteField", {"asks", "shows"})},
       {FieldDefinitionRow, NewFieldForm})
FieldValueRow == Part({}, {Op("useSetFieldValue", {"shows"})}, {})
IssueField == Part({"useIssueFields"}, {}, {FieldValueRow})
IssueFields == Part({"useIssueFields"}, {}, {FieldValueRow})

(* features/filters *)
BulkMoveDialog == Part({"useProjectStatuses"}, {}, {ProjectPicker})
BulkProjectChanges ==
  Part({"useComponents", "useMilestones", "useProjectFields", "useSprints",
        "useTeams", "useVersions"},
       {},
       {})
BulkBar ==
  Part({"useBulkTransitions"},
       {Op("useBulkEdit", {"waits", "shows", "closes"}),
        Op("useBulkEdit", {"asks", "shows"})},
       {BulkMoveDialog, BulkProjectChanges, LabelInput, PersonPicker})
CloneDialog ==
  Part({},
       {Op("useCloneIssue", {"waits", "shows", "closes", "leaves"})},
       {})
MoveDialog ==
  Part({"useIssueFields", "useStatuses"},
       {Op("useMoveIssue", {"waits", "shows", "closes", "leaves"})},
       {ProjectPicker})
SaveDialog ==
  Part({},
       {Op("useCreateSavedFilter", {"waits", "shows", "closes", "leaves"})},
       {})
SavedFilterBar ==
  Part({"useSavedFilters"},
       {Op("useStarFilter", {})},
       {SaveDialog})

(* features/git *)
CreateBranch == Part({}, {Op("useCreateBranch", {"waits", "shows"})}, {})
DevelopmentPanel ==
  Part({"useDevelopment", "useRepositories"},
       {},
       {CreateBranch})
ConnectForm ==
  Part({"useProjectWorkflows", "useWorkflow"},
       {Op("useConnectRepository", {"waits", "shows", "closes"})},
       {})
RepositoryCard ==
  Part({},
       {Op("useUpdateRepository", {"waits", "shows", "clears"}),
        Op("useRotateSecret", {"waits", "shows"}),
        Op("useDisconnectRepository", {"waits", "asks", "shows"})},
       {})
RepositoryList == Part({"useRepositories"}, {}, {ConnectForm, RepositoryCard})

(* features/issues *)
ComponentAsk == Part({"useComponents"}, {}, {})
MilestoneAsk == Part({"useMilestones"}, {}, {})
OneFieldAsk == Part({"useProjectFields"}, {}, {})
OtherFieldsAsk == Part({"useProjectFields"}, {}, {})
SprintAsk == Part({"useSprints"}, {}, {})
TeamAsk == Part({"useTeams"}, {}, {})
VersionAsk == Part({"useVersions"}, {}, {})
renderAsk ==
  Part({},
       {},
       {ComponentAsk, LabelInput, MilestoneAsk, OneFieldAsk, OtherFieldsAsk,
        PersonPicker, SprintAsk, TeamAsk, VersionAsk})
CreateIssueDialog ==
  Part({"useArrangements", "useProjectIssueTypes"},
       {Op("useCreateIssue", {"waits", "shows", "closes", "stays", "resets", "follows"})},
       {ProjectPicker, renderAsk})
DeleteIssueButton == Part({}, {Op("useDeleteIssue", {"asks", "leaves"})}, {})
(* The button waits and Ctrl+Enter in the editor does not; the editor is   *)
(* cancelled and opened again on the page, or the page is left.            *)
Description ==
  Part({},
       {Op("useUpdateIssue", {"shows", "async", "closes"} \cup press \cup away) :
          press \in {{"waits"}, {}}, away \in {{"stays"}, {"keeps"}}},
       {})
CommentForm ==
  Part({"useCannedResponses", "useFindMentionable", "useProject"},
       {Op(write, {"locks", "keeps", "shows", "async", "clears"} \cup press) :
          write \in {"useAddComment", "useAddNote"}, press \in {{"waits"}, {}}}
         \cup {Op("useRenderCanned", {"once"})},
       {})
CommentEditor ==
  Part({"useFindMentionable"},
       {Op("useUpdateComment", {"shows", "async", "closes"} \cup press \cup away) :
          press \in {{"waits"}, {}}, away \in {{"lent"}, {}}},
       {})
CommentItem ==
  Part({},
       {Op("useDeleteComment", {"asks", "shows"})},
       {CommentEditor})
Activity == Part({"useAccess", "useComments"}, {}, {CommentForm, CommentItem})
AssigneeField == Part({}, {Op("useUpdateIssue", {})}, {PersonPicker})

(* features/versions *)
ComponentField ==
  Part({"useComponents"},
       {Op("useSetIssueComponents", {"shows"})},
       {})

(* features/sprints *)
EstimateField == Part({}, {Op("useSetEstimate", {"shows"})}, {})

(* features/labels *)
LabelPicker == Part({}, {Op("useSetIssueLabels", {"shows"})}, {LabelInput})

(* features/milestones *)
MilestoneField ==
  Part({"useMilestones"},
       {Op("useSetIssueMilestone", {"shows"})},
       {})

(* features/issues *)
ParentPicker ==
  Part({"useParentCandidates", "useProjectIssueTypes"},
       {Op("useSetParent", {"shows"})},
       {})
PriorityPicker == Part({}, {Op("useUpdateIssue", {})}, {})
ReporterField == Part({}, {Op("useUpdateIssue", {})}, {PersonPicker})

(* features/plan *)
ScheduleField == Part({}, {Op("useSchedule", {"waits", "shows"})}, {})

(* features/issues *)
SlaDetails == Part({"useTimers"}, {}, {})

(* features/sprints *)
SprintField == Part({"useSprints"}, {Op("useSetIssueSprint", {"shows"})}, {})

(* features/teams *)
TeamField == Part({"useTeams"}, {Op("useSetIssueTeam", {"shows"})}, {})

(* features/time *)
TimeCell == Part({}, {Op("useUpdateIssue", {})}, {})

(* features/versions *)
VersionField ==
  Part({"useVersions"},
       {Op("useSetIssueVersions", {"shows"})},
       {})

(* features/issues *)
renderPlace ==
  Part({},
       {},
       {AssigneeField, ComponentField, EstimateField, IssueField, IssueFields,
        LabelPicker, MilestoneField, ParentPicker, PriorityPicker,
        ReporterField, ScheduleField, SlaDetails, SprintField, TeamField,
        TimeCell, VersionField})
IssueAncestry == Part({"useIssueHierarchy"}, {}, {})
SummaryEditor == Part({}, {Op("useUpdateIssue", {"shows", "closes"})}, {})
TransitionDialog ==
  Part({},
       {Op("useTransitionIssue", {"waits", "shows", "closes"})},
       {PersonPicker})
TransitionBar ==
  Part({"useTransitions"},
       {Op("useTransitionIssue", {"shows"})},
       {TransitionDialog})
TypePicker == Part({}, {Op("useUpdateIssue", {"waits", "asks"})}, {})
TypeField == Part({"useProjectIssueTypes"}, {}, {TypePicker})
IssueHeader ==
  Part({},
       {},
       {CloneDialog, DeleteIssueButton, IssueAncestry, MoveDialog,
        SummaryEditor, TransitionBar, TypeField})
History == Part({"useHistory"}, {}, {})
AddChildForm ==
  Part({},
       {Op("useCreateIssue", {"waits", "shows", "closes", "clears"})},
       {})
ChildrenPanel == Part({"useIssueHierarchy"}, {}, {AddChildForm})
LinksPanel ==
  Part({"useLinkTypes", "useLinks"},
       {Op("useAddLink", {"waits", "shows", "clears"}),
        Op("useRemoveLink", {"shows"})},
       {})
PagesPanel ==
  Part({"useRemoteLinks"},
       {Op("useRemoveRemoteLink", {"shows"})},
       {})
WatchersPanel ==
  Part({"useWatchers"},
       {Op("useAddWatcher", {"waits", "shows", "clears"}),
        Op("useRemoveWatcher", {"waits", "shows"})},
       {PersonPicker})

(* features/time *)
WorklogEditor ==
  Part({},
       {Op("useUpdateWorklog", {"waits", "shows", "closes"})},
       {})
WorklogPanel ==
  Part({"useAccess", "useWorklogs"},
       {Op("useLogWork", {"waits", "shows", "clears"}),
        Op("useDeleteWorklog", {"asks", "shows"})},
       {WorklogEditor})

(* features/issues *)
IssueMain ==
  Part({},
       {},
       {Activity, AttachmentPanel, ChildrenPanel, Description,
        DevelopmentPanel, History, LinksPanel, PagesPanel, WatchersPanel,
        WorklogPanel, renderPlace})
IssueUnavailable == Part({}, {Op("useAskForAccess", {"waits", "shows"})}, {})
IssuePage ==
  Part({"useAccess", "useArrangements", "useIssue", "useMe", "useProject"},
       {},
       {IssueHeader, IssueMain, IssueUnavailable, renderPlace})

(* features/milestones *)
MilestoneDashboardDialog ==
  Part({"useDashboardTemplates"},
       {Op("useCreateDashboard", {"waits", "shows", "closes", "leaves"})},
       {})
MilestoneIssues == Part({"useIssues"}, {}, {})
MilestoneCard ==
  Part({},
       {Op("useUpdateMilestone", {"waits", "shows", "closes"}),
        Op("useCloseMilestone", {"waits", "shows"}),
        Op("useReopenMilestone", {"waits", "shows"}),
        Op("useDeleteMilestone", {"waits", "asks", "shows"})},
       {MilestoneDashboardDialog, MilestoneIssues})
NewMilestone ==
  Part({},
       {Op("useCreateMilestone", {"waits", "shows", "clears"})},
       {})
MilestoneList == Part({"useMilestones"}, {}, {MilestoneCard, NewMilestone})

(* features/plan *)
DependencyGraph ==
  Part({"usePlan"},
       {Op("useAddLink", {"once", "shows"}),
        Op("useRemoveLink", {"waits", "shows", "closes"})},
       {})

(* features/search *)
QueryInput == Part({"useSavedFilters", "useSuggestions"}, {}, {})

(* features/plan *)
Timeline ==
  Part({"usePlan", "useProjectIssueTypes"},
       {Op("useSchedule", {"once", "shows"}),
        Op("useCreateIssue", {"waits", "shows", "clears"}),  \* AddSidebarRow
        Op("useCreateIssue", {"shows", "clears"}),           \* DraftInput
        Op("useSetParent", {"once", "shows"}),
        Op("useAddLink", {"once", "shows"}),
        Op("useRemoveLink", {"waits", "shows", "closes"})},
       {})

(* features/projects *)
PlanningSettings ==
  Part({},
       {AlsoTells(Op("useUpdateProject", {"waits", "shows"}), {<<"resources">>})},
       {})
ShareRow == Part({}, {Op("useSetAllocation", {"waits", "shows"})}, {})
ShareSettings == Part({"useAllocations"}, {}, {ShareRow})
HistoryDialog == Part({"useStatusUpdates"}, {}, {})
PostDialog ==
  Part({},
       {Op("usePostStatusUpdate", {"waits", "shows", "closes", "clears", "stays"})},
       {})
TemplateChooser == Part({"useProjectTemplates"}, {}, {})
TemplateEditor ==
  Part({"useIssueTypes", "useSchemes"},
       {Op("useCreateProjectTemplate", {"waits", "shows", "closes"}),
        Op("useUpdateProjectTemplate", {"waits", "shows", "closes"})},
       {})

(* features/sprints *)
IssueRow == Part({}, {Op("useSetIssueSprint", {})}, {})
NewSprint ==
  Part({},
       {Op("useCreateSprint", {"waits", "shows", "clears"})},
       {})
SprintSettings == Part({}, {Op("useUpdateSprint", {"shows"})}, {})
SprintCard ==
  Part({"useSprintIssues"},
       {Op("useStartSprint", {"waits", "shows"}),
        Op("useCompleteSprint", {"waits", "shows"}),
        Op("useDeleteSprint", {"waits", "asks", "shows"})},
       {IssueRow, SprintSettings})
SprintPlanning ==
  Part({"useBacklogIssues", "usePlan", "useSprints", "useTeams"},
       {},
       {IssueRow, NewSprint, SprintCard})

(* features/teams *)
CapacityField == Part({}, {Op("useUpdateTeam", {"shows"})}, {})
NewTeam == Part({}, {Op("useCreateTeam", {"waits", "shows", "clears"})}, {})
TeamCard ==
  Part({"useAccess", "useTeam"},
       {Op("useAddTeamMember", {"waits", "shows", "early"}),
        Op("useRemoveTeamMember", {"asks", "shows"}),
        Op("useDeleteTeam", {"waits", "asks", "shows"}),
        Op("useCreateBoard", {"waits", "shows"})},
       {AbsenceDialog, CapacityField, PersonPicker})
TeamList == Part({"useTeams"}, {}, {NewTeam, TeamCard})

(* features/versions *)
EditComponent ==
  Part({},
       {Op("useUpdateComponent", {"waits", "shows", "closes"})},
       {PersonPicker})
NewComponent ==
  Part({},
       {Op("useCreateComponent", {"waits", "shows", "clears"})},
       {PersonPicker})
ComponentList ==
  Part({"useComponents"},
       {Op("useDeleteComponent", {"asks"})},
       {EditComponent, NewComponent})
EditVersion ==
  Part({},
       {Op("useUpdateVersion", {"waits", "shows", "closes"})},
       {})
NewVersion ==
  Part({},
       {Op("useCreateVersion", {"waits", "shows", "clears"})},
       {})
NotesPanel == Part({"useReleaseNotes"}, {}, {})
ReleaseList ==
  Part({"useVersions"},
       {Op("useVersionAction", {"once"}), Op("useDeleteVersion", {"asks"})},
       {EditVersion, NewVersion, NotesPanel})
=============================================================================
