---------------------------- MODULE ClientShell ----------------------------
(****************************************************************************)
(* The frame around every page: sidebar, account menu, notifications, the   *)
(* command palette, and the two shells (an agent's and a customer's).       *)
(****************************************************************************)
EXTENDS ClientAdmin

(* features/palette *)
AskAnswer == Part({}, {Op("useConfirmProposal", {"waits"})}, {})
CommandPalette ==
  Part({"useAccess", "useAssistantStatus", "useIssues", "useProject",
        "useProjectSearch"},
       {Op("useAsk", {"waits", "shows", "stays", "resets"})},
       {AskAnswer})

(* features/shell *)
AccountHeader == Part({"useMe"}, {}, {})
useAccountItems ==
  Part({"useAccess", "useConnectedTools"},
       {Op("useLogout", {"once", "leaves"})},
       {})
NotificationsPanel ==
  Part({"useInbox"},
       {Op("useMarkRead", {"waits"}), Op("useMarkRead", {})},
       {})
NotificationsBell == Part({"useUnreadCount"}, {}, {NotificationsPanel})
NarrowStrip == Part({"useMe"}, {}, {NotificationsBell})
PlaceCrumbs == Part({"useProject"}, {}, {})
BuildStamp == Part({"useMeta"}, {}, {})
InstallationName == Part({"useMe"}, {}, {})
DrawerFoot == Part({"useMe"}, {}, {BuildStamp, useAccountItems})
ProjectPages == Part({"useProject"}, {}, {})
ProjectSwitcher == Part({"useProject", "useProjectSearch"}, {}, {})
UnreadCount == Part({"useUnreadCount"}, {}, {})
WorkGroups ==
  Part({"useAccess"},
       {},
       {ProjectPages, ProjectSwitcher, UnreadCount})
NavDrawer == Part({}, {}, {DrawerFoot, InstallationName, WorkGroups})
Rail == Part({}, {}, {AccountHeader, NotificationsBell, useAccountItems})
Sidebar ==
  Part({"useMe"},
       {},
       {BuildStamp, InstallationName, NavDrawer, Rail, WorkGroups})
AgentShell ==
  Part({},
       {},
       {BackdropEffect, CommandPalette, CreateIssueDialog, IssuePage,
        NarrowStrip, PlaceCrumbs, Sidebar, ThemeLoader})
CustomerMenu == Part({}, {Op("useEraseMe", {"asks", "leaves"})}, {})
SidebarFoot == Part({}, {Op("useLogout", {"leaves"})}, {CustomerMenu})
PortalShell == Part({"useMe"}, {}, {PlaceCrumbs, SidebarFoot})
AppShell == Part({"useMe"}, {}, {})
ShellNotFound == Part({"useMe"}, {}, {AppShell})
=============================================================================
