----------------------------- MODULE Navigation -----------------------------
(***************************************************************************)
(* Where a signed-in user may go: the menu (navigation.js, drawn by the    *)
(* sidebar and the phone's bar), the routes and their guards (AppRoutes,   *)
(* ProtectedRoute), and what "/" and the moved addresses come to.  Pure    *)
(* operators over a user's role, section and granted codes.                *)
(***************************************************************************)
EXTENDS Integers, Sequences, FiniteSets

EmployeeCodes == {"staffs.view", "departments.view", "roles.view", "users.view"}

(* A menu entry opens with any of its codes, is kept from some roles, and  *)
(* from users scoped to a section or from all others.                      *)
Entry(to, codes, kept, scope) == [to |-> to, codes |-> codes, keptFrom |-> kept, scope |-> scope]

Scopes == {"any", "unscoped", "scoped"}

NavItems == <<
    Entry("/", {"dashboard.view"}, {}, "unscoped"),
    Entry("/statistics", {"lead_analytics.view"}, {"Finance"}, "unscoped"),
    Entry("/leads", {"leads.view"}, {"Finance"}, "any"),
    Entry("/notifications", {"notifications.view"}, {}, "scoped"),
    Entry("/leads/form-collection", {"form_collection.view"}, {"Finance"}, "any"),
    Entry("/programs", {"programs.view"}, {"Finance"}, "unscoped"),
    Entry("/settings/google-sheets", {"sheet_export.view"}, {"Finance"}, "unscoped"),
    Entry("/induction-attendance/terms", {"induction_attendance.view"}, {}, "unscoped"),
    Entry("/polls", {"induction_attendance.view"}, {}, "any"),
    Entry("/induction-attendance/success-meet", {"induction_attendance.view"}, {}, "unscoped"),
    Entry("/induction-attendance/foundation-class", {"induction_attendance.view"}, {}, "unscoped"),
    Entry("/batch-confirmation", {"batch_confirmation.view"}, {}, "any"),
    Entry("/whatsapp-links", {"whatsapp_links.view"}, {}, "any"),
    Entry("/student-portal", {"student_portal.view"}, {}, "unscoped"),
    Entry("/payments", {"payments.view"}, {}, "any"),
    Entry("/employee", EmployeeCodes, {}, "any"),
    Entry("/settings", {"settings.view"}, {}, "any")
>>

-----------------------------------------------------------------------------
(* AuthProvider.hasPermission *)
HasPermission(user, code) == user.role = "Super Admin" \/ code \in user.grants

IsNavItemVisible(item, user) ==
    /\ \E code \in item.codes : HasPermission(user, code)
    /\ user.role \notin item.keptFrom
    /\ item.scope = "unscoped" => ~user.scoped
    /\ item.scope = "scoped" => user.scoped

(* The menu, as positions in NavItems.                                     *)
VisibleNavItems(user) == {n \in DOMAIN NavItems : IsNavItemVisible(NavItems[n], user)}

(* getLandingPath: the first page of the user's own, "/" aside. *)
Openable(user) == {n \in VisibleNavItems(user) : NavItems[n].to # "/"}
HasLanding(user) == Openable(user) # {}
LandingPath(user) == NavItems[CHOOSE n \in Openable(user) : \A m \in Openable(user) : n <= m].to

-----------------------------------------------------------------------------
(* The routes inside the layout: the code each asks for ("" for a sign-in  *)
(* alone) and whether it is blocked for users scoped to a section.         *)

Route(code, blocked) == [code |-> code, blockScoped |-> blocked]

AttendancePaths == {"/induction-attendance", "/induction-attendance/terms", "/induction-attendance/success-meet",
                    "/induction-attendance/foundation-class"}

GuardOf(path) ==
    CASE path \in {"/leads", "/marketing-board"} -> Route("leads.view", FALSE)
      [] path \in {"/statistics", "/lead-analytics"} -> Route("lead_analytics.view", TRUE)
      [] path \in {"/leads/form-collection", "/leads/foundation-form"} -> Route("form_collection.view", FALSE)
      [] path = "/programs" -> Route("programs.view", FALSE)
      [] path \in AttendancePaths -> Route("induction_attendance.view", TRUE)
      [] path = "/polls" -> Route("induction_attendance.view", FALSE)
      [] path = "/student-portal" -> Route("student_portal.view", TRUE)
      [] path = "/batch-confirmation" -> Route("batch_confirmation.view", FALSE)
      [] path = "/whatsapp-links" -> Route("whatsapp_links.view", FALSE)
      [] path = "/payments" -> Route("payments.view", FALSE)
      [] path = "/settings" -> Route("settings.view", FALSE)
      [] path = "/settings/google-sheets" -> Route("sheet_export.view", FALSE)
      [] OTHER -> Route("", FALSE)

(* The addresses kept for old bookmarks, and where they lead.              *)
Moved == [p \in {"/lead-analytics", "/leads/foundation-form", "/induction-attendance", "/staffs", "/departments",
                 "/roles", "/users"} |->
    CASE p = "/lead-analytics" -> "/statistics"
      [] p = "/leads/foundation-form" -> "/leads/form-collection"
      [] p = "/induction-attendance" -> "/induction-attendance/terms"
      [] OTHER -> "/employee"]

(* ProtectedRoute lets the user through. *)
Admits(user, path) ==
    LET guard == GuardOf(path)
    IN  /\ guard.code = "" \/ HasPermission(user, guard.code)
        /\ ~(guard.blockScoped /\ user.scoped)

(* EmployeePage's tabs, each granted on its own. *)
EmployeeTabs(user) == {code \in EmployeeCodes : HasPermission(user, code)}

(* The redirect a path answers with: a guard's, HomeRoute's, EmployeePage's *)
(* or a moved address's; the path itself when its page is shown.           *)
Turn(user, path) ==
    CASE path = "/unauthorized" -> path
      [] ~Admits(user, path) -> "/unauthorized"
      [] path = "/" -> IF IsNavItemVisible(NavItems[1], user) THEN path
                       ELSE IF HasLanding(user) THEN LandingPath(user) ELSE "/unauthorized"
      [] path = "/employee" -> IF EmployeeTabs(user) # {} THEN path ELSE "/unauthorized"
      [] path \in DOMAIN Moved -> Moved[path]
      [] OTHER -> path

Opens(user, path) == path # "/unauthorized" /\ Turn(user, path) = path

(* Where a user ends up: no address is turned more than three times.       *)
Arrive(user, path) == Turn(user, Turn(user, Turn(user, path)))

-----------------------------------------------------------------------------
(* The layout's own menus: no sidebar or bar for a single destination; the *)
(* bar gives the first destinations a tab and the sheet behind "More" all. *)
Slots == 5

MenuShown(user) == Cardinality(VisibleNavItems(user)) > 1

Fits(user) == Cardinality(VisibleNavItems(user)) <= Slots
BarTabs(user) ==
    LET leaves == VisibleNavItems(user)
    IN  IF Fits(user) THEN leaves ELSE {n \in leaves : Cardinality({m \in leaves : m < n}) < Slots - 1}

Sheet(user) == IF Fits(user) THEN {} ELSE VisibleNavItems(user)

(* Every destination of the layout's menus.                                *)
Offered(user) == IF MenuShown(user) THEN {NavItems[n].to : n \in BarTabs(user) \cup Sheet(user)} ELSE {}
=============================================================================
