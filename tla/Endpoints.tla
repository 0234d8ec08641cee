----------------------------- MODULE Endpoints -----------------------------
(* The HTTP endpoints of the application, the permissions they ask for,    *)
(* the matrix that says which role has which permission, and the way a     *)
(* request finds its handler.                                              *)
(*                                                                         *)
(* An endpoint is what the decorators of a controller declare: its method, *)
(* its path, the permission it needs, whether it is public, and the        *)
(* operation of the service its handler calls. (JwtAuthGuard, which many   *)
(* controllers add, reads again the token that the global guard has read.) *)
(* What the operations do is in the other modules. A path is a sequence of *)
(* segments; Param stands for one that is a parameter.                     *)
EXTENDS Naturals, Sequences, FiniteSetsExt, SequencesExt

Param == ":id"

PermModule == {"sos", "rescue", "flood", "disaster", "donation", "user", "report", "alert",
               "message"}

\* Mutant of ALL: delete was forgotten.
AllButDelete == <<"create", "read", "update", "manage", "verify">>

\* The action sets the matrix is written with.
ALL == <<"create", "read", "update", "delete", "manage", "verify">>
CRUD == <<"create", "read", "update", "delete">>
CRUD_VERIFY == Append(CRUD, "verify")
MANAGE_READ == <<"manage", "read">>
CREATE_READ == <<"create", "read">>
READ_ONLY == <<"read">>

\* ROLE_PERMISSION_MATRIX, by the name each role id stands for.
ROLE_PERMISSION_MATRIX ==
    [SYSTEM_ADMIN |-> [m \in PermModule |-> ALL],
     PROVINCE_ADMIN |-> [m \in PermModule |->
        CASE m = "sos" -> CRUD
          [] m \in {"rescue", "user"} -> ALL
          [] m = "flood" -> CRUD_VERIFY
          [] m = "report" -> READ_ONLY
          [] OTHER -> MANAGE_READ],
     RESCUE_TEAM_LEADER |-> [m \in PermModule |->
        CASE m = "sos" -> CRUD
          [] m = "flood" -> CREATE_READ
          [] m \in {"rescue", "message"} -> MANAGE_READ
          [] OTHER -> READ_ONLY],
     USER |-> [m \in PermModule |->
        CASE m \in {"sos", "flood"} -> CREATE_READ
          [] m \in {"user", "report"} -> <<>>
          [] OTHER -> READ_ONLY],
     VOLUNTEER |-> [m \in PermModule |->
        CASE m = "flood" -> CREATE_READ
          [] m \in {"user", "report"} -> <<>>
          [] OTHER -> READ_ONLY]]

\* The roles in the order of their ids in SystemRoleId.
SystemRoles == <<"SYSTEM_ADMIN", "PROVINCE_ADMIN", "RESCUE_TEAM_LEADER", "USER", "VOLUNTEER">>

\* What the matrix gives a role: pairs of a module and an action.
Matrix == [n \in ToSet(SystemRoles) |->
             {p \in PermModule \X ToSet(ALL) :
                 p[2] \in ToSet(ROLE_PERMISSION_MATRIX[n][p[1]])}]

\* Permissions, generated from the matrix: a pair no role has is not in it.
Permissions == UNION {Matrix[n] : n \in DOMAIN Matrix}

\* What @RequirePermissions(Permissions.M_A) declares: a name that was not
\* generated is undefined, which compiles.
Undefined == <<"undefined", "undefined">>
RequirePermissions(m, a) == {IF <<m, a>> \in Permissions THEN <<m, a>> ELSE Undefined}

\* An endpoint of any caller the global guards let through.
On(method, path, op) ==
    [method |-> method, path |-> path, needs |-> {}, public |-> FALSE, op |-> op]
Asking(m, a, e) == [e EXCEPT !.needs = RequirePermissions(m, a)]
Public(e) == [e EXCEPT !.public = TRUE]
\* A controller whose paths start with prefix.
Controller(prefix, es) == [i \in DOMAIN es |-> [es[i] EXCEPT !.path = prefix \o @]]

AppController == <<Public(On("GET", <<>>, "getHello"))>>

AuthController == Controller(<<"auth">>, <<
    Public(On("POST", <<"login">>, "login")),
    Public(On("POST", <<"register">>, "register")),
    Asking("user", "manage", On("POST", <<"admin", "register">>, "adminRegister")),
    Public(On("POST", <<"refresh">>, "refresh")),
    On("POST", <<"logout">>, "logout"),
    Public(On("POST", <<"forgot-password">>, "forgotPassword")),
    Public(On("POST", <<"reset-password">>, "resetPassword"))>>)

HealthController == Controller(<<"health">>, <<Public(On("GET", <<>>, "check"))>>)

RescueTeamController == Controller(<<"rescue-teams">>, <<
    Asking("rescue", "create", On("POST", <<>>, "create")),
    Asking("rescue", "read", On("GET", <<>>, "findAll")),
    Asking("rescue", "read", On("GET", <<Param>>, "findById")),
    Asking("rescue", "update", On("PATCH", <<"bulk-status">>, "bulkUpdateStatus")),
    Asking("rescue", "update", On("PATCH", <<Param>>, "update")),
    Asking("rescue", "update", On("PATCH", <<Param, "location">>, "updateLocation")),
    Asking("rescue", "delete", On("DELETE", <<Param>>, "delete"))>>)

LocationController == Controller(<<"locations">>, <<
    Public(On("GET", <<"provinces">>, "getAllProvinces")),
    Public(On("GET", <<"geocode">>, "queryGeocoding")),
    Public(On("GET", <<"resolve">>, "findUnitByCoordinates")),
    Public(On("GET", <<"provinces", Param>>, "getProvinceById")),
    Public(On("GET", <<"wards">>, "getWardsByProvinceId")),
    Public(On("GET", <<"provinces", Param, "center">>, "getProvinceCenters"))>>)

RoleController == Controller(<<"roles">>, <<
    Asking("user", "manage", On("POST", <<>>, "create")),
    Asking("user", "read", On("GET", <<>>, "findAll")),
    Asking("user", "read", On("GET", <<Param>>, "findById")),
    Asking("user", "manage", On("PATCH", <<Param>>, "update")),
    Asking("user", "manage", On("DELETE", <<Param>>, "delete"))>>)

TeamSpecializationController == Controller(<<"team-specializations">>, <<
    Public(On("GET", <<>>, "findAll")),
    Public(On("GET", <<Param>>, "findById")),
    On("POST", <<>>, "create"),
    On("PATCH", <<Param>>, "update"),
    On("DELETE", <<Param>>, "delete")>>)

RescueTeamMemberController == Controller(<<"teams", Param, "members">>, <<
    On("POST", <<>>, "addMember"),
    Public(On("GET", <<>>, "getMembers")),
    On("PATCH", <<Param, "role">>, "updateMemberRole"),
    On("DELETE", <<Param>>, "removeMember")>>)

TeamLeaveController == Controller(<<"teams", "leave">>, <<On("POST", <<>>, "leaveTeam")>>)

UserController == Controller(<<"users">>, <<
    Asking("user", "read", On("GET", <<>>, "findAll")),
    Asking("user", "read", On("GET", <<"search">>, "search")),
    On("GET", <<"profile">>, "getProfile"),
    On("PATCH", <<"profile">>, "updateProfile"),
    On("PATCH", <<"profile", "password">>, "changePassword"),
    Asking("user", "update", On("PATCH", <<"bulk-update">>, "bulkUpdate")),
    Asking("user", "read", On("GET", <<"stats">>, "getStats")),
    Asking("user", "manage", On("POST", <<Param, "notify">>, "sendNotification")),
    Asking("user", "read", On("GET", <<Param>>, "findById")),
    Asking("user", "update", On("PATCH", <<Param>>, "update")),
    Asking("user", "delete", On("DELETE", <<Param>>, "delete")),
    Asking("user", "manage", On("PATCH", <<Param, "status">>, "updateStatus")),
    Asking("user", "manage", On("PATCH", <<Param, "password">>, "changePassword"))>>)

DeviceController == Controller(<<"devices">>, <<
    On("POST", <<"register">>, "registerDevice"),
    On("GET", <<>>, "getUserDevicesAndSessions"),
    On("DELETE", <<"all">>, "revokeAllDevicesAndSessions"),
    On("DELETE", <<Param>>, "deleteDevice"),
    On("DELETE", <<"session", Param>>, "revokeSession")>>)

SosRequestController == Controller(<<"sos-requests">>, <<
    Public(On("POST", <<>>, "create")),
    Asking("sos", "read", On("GET", <<>>, "findAll")),
    Asking("sos", "read", On("GET", <<"nearby">>, "findNearby")),
    Asking("sos", "update", On("PATCH", <<Param, "status">>, "updateStatus")),
    Asking("sos", "update", On("PATCH", <<Param, "assign">>, "assignTeam")),
    Asking("sos", "read", On("GET", <<Param>>, "findById")),
    Asking("sos", "read", On("GET", <<Param, "timeline">>, "getTimeline")),
    Asking("sos", "read", On("GET", <<Param, "history">>, "getTimeline")),
    Public(On("DELETE", <<Param>>, "cancel"))>>)

UploadController == Controller(<<"upload">>, <<
    Public(On("POST", <<"single">>, "uploadFile")),
    Public(On("POST", <<"multiple">>, "uploadFiles"))>>)

SystemSettingController == Controller(<<"system-settings">>, <<
    On("GET", <<>>, "getAllSettings"),
    On("PATCH", <<>>, "updateSettings"),
    On("GET", <<"categories", Param>>, "getCategories"),
    On("POST", <<"categories">>, "addCategory"),
    On("DELETE", <<"categories", Param>>, "deleteCategory")>>)

RescueEquipmentController == Controller(<<"teams", Param, "equipments">>, <<
    Asking("rescue", "read", On("GET", <<>>, "findByTeamId")),
    Asking("rescue", "update", On("PUT", <<Param>>, "update")),
    Asking("rescue", "update", On("POST", <<>>, "create")),
    Asking("rescue", "update", On("DELETE", <<Param>>, "delete"))>>)

RoutingController == Controller(<<"routing">>, <<
    Public(On("POST", <<"calculate">>, "calculateRoute"))>>)

FloodRequestController == Controller(<<"flood-requests">>, <<
    Public(On("POST", <<>>, "create")),
    Public(On("GET", <<"track">>, "track")),
    On("GET", <<"my">>, "findAll"),
    Asking("flood", "read", On("GET", <<>>, "findAll")),
    Asking("flood", "read", On("GET", <<Param>>, "findById")),
    Asking("flood", "update", On("PATCH", <<Param, "status">>, "updateStatus")),
    Asking("flood", "update", On("POST", <<Param, "approve-map">>, "approveMap")),
    Asking("flood", "update", On("POST", <<Param, "dispatch">>, "dispatch")),
    Asking("flood", "read", On("GET", <<Param, "history">>, "getHistory"))>>)

NotificationTemplateController == Controller(<<"notification-templates">>, <<
    On("GET", <<>>, "find"),
    On("GET", <<Param>>, "findOne"),
    On("POST", <<>>, "save"),
    On("PUT", <<Param>>, "update"),
    On("DELETE", <<Param>>, "delete"),
    On("POST", <<"test-render">>, "render")>>)

NotificationEventController == Controller(<<"notification-events">>, <<
    On("GET", <<>>, "find"),
    On("GET", <<"groups">>, "findGroups")>>)

NotificationController == Controller(<<"notifications">>, <<
    On("GET", <<>>, "getAllSentNotifications"),
    On("GET", <<"my">>, "getUserNotifications"),
    On("PATCH", <<Param, "read">>, "markAsRead"),
    On("PATCH", <<"read-all", "bulk">>, "markAllAsRead"),
    On("DELETE", <<Param>>, "deleteNotification"),
    On("POST", <<"bulk-read">>, "bulkMarkAsRead"),
    On("POST", <<"bulk-delete">>, "bulkDelete"),
    On("GET", <<"logs">>, "getLogs"),
    On("POST", <<"send">>, "send")>>)

DashboardController == Controller(<<"dashboard">>, <<
    Asking("report", "read", On("GET", <<"stats">>, "getStats")),
    Asking("report", "read", On("GET", <<"charts">>, "getCharts")),
    Asking("report", "read", On("GET", <<"alerts">>, "getAlerts")),
    Asking("report", "read", On("GET", <<"map-tasks">>, "getMapTasks")),
    Asking("report", "read", On("GET", <<"resources">>, "getResources"))>>)

\* Every endpoint, in the order the router knows them: the modules as they are
\* imported, the handlers of a controller as they are written.
Routes ==
    AppController \o AuthController \o HealthController \o RescueTeamController
    \o LocationController \o RoleController \o TeamSpecializationController
    \o RescueTeamMemberController \o TeamLeaveController \o UserController
    \o DeviceController \o SosRequestController \o UploadController
    \o SystemSettingController \o RescueEquipmentController \o RoutingController
    \o FloodRequestController \o NotificationTemplateController
    \o NotificationEventController \o NotificationController \o DashboardController

\* A request for an endpoint carries an id where its path has a parameter.
Fits(e, method, path) ==
    /\ e.method = method
    /\ Len(e.path) = Len(path)
    /\ \A i \in DOMAIN path : e.path[i] \in {Param, path[i]}
Concrete(path) == [i \in DOMAIN path |-> IF path[i] = Param THEN "1" ELSE path[i]]

\* The first route that fits is the one that answers.
Handler ==
    [k \in DOMAIN Routes |->
        Min({j \in DOMAIN Routes : Fits(Routes[j], Routes[k].method, Concrete(Routes[k].path))})]

=============================================================================
