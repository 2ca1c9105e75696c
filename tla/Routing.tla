------------------------------ MODULE Routing ------------------------------
(***************************************************************************)
(* Which handler answers a request, and to whom.  The server mounts the    *)
(* routes through the generated wrappers, whose one middleware chooses the *)
(* checks by the prefix of the path (NewRouterCodegen); NewRouter, the     *)
(* alternative kept beside it, mounts the same handlers in groups that     *)
(* carry their checks.  A path is the sequence of its segments, and a      *)
(* parameter of it is any segment.                                         *)
(***************************************************************************)
EXTENDS Naturals, Sequences

Roles == {"MERCHANT", "ADMIN", "USER"}

(* Who asks: a role of a valid token, or someone without one.              *)
NoOne == "no one"
Identities == Roles \cup {NoOne}

-----------------------------------------------------------------------------
(* The middleware: the roles a route is open to; NoOne is among them when  *)
(* no token is asked for.                                                  *)

Public == Identities
AnyRole == Roles

(* RequireAuth, then RequireRole.                                          *)
Answer(open, id, handler) ==
  CASE id \in open -> handler
    [] id \notin open /\ id = NoOne -> "401"
    [] OTHER -> "403"

-----------------------------------------------------------------------------
(* NewRouterCodegen                                                        *)

(* The generated routes and the operation each stands for.                 *)
CodegenRoutes ==
  {<<"GET",    <<"admin", "dashboard">>,                        "AdminDashboard">>,
   <<"GET",    <<"admin", "dashboard", "stats">>,               "GetDashboardStats">>,
   <<"POST",   <<"admin", "payment-intents", "*", "simulate">>, "SimulatePaymentIntent">>,
   <<"POST",   <<"admin", "refunds", "*", "approve">>,          "ApproveRefund">>,
   <<"POST",   <<"admin", "refunds", "*", "process">>,          "ProcessRefund">>,
   <<"POST",   <<"admin", "refunds", "*", "reject">>,           "RejectRefund">>,
   <<"POST",   <<"admin", "topups", "*", "status">>,            "UpdateTopUpStatus">>,
   <<"POST",   <<"auth", "login">>,                             "Login">>,
   <<"POST",   <<"auth", "refresh">>,                           "Refresh">>,
   <<"POST",   <<"auth", "register">>,                          "Register">>,
   <<"GET",    <<"health">>,                                    "Health">>,
   <<"GET",    <<"invoices">>,                                  "ListInvoices">>,
   <<"POST",   <<"invoices">>,                                  "CreateInvoice">>,
   <<"DELETE", <<"invoices", "*">>,                             "DeleteInvoice">>,
   <<"GET",    <<"invoices", "*">>,                             "GetInvoice">>,
   <<"PUT",    <<"invoices", "*">>,                             "UpdateInvoice">>,
   <<"GET",    <<"merchant", "profile">>,                       "MerchantProfile">>,
   <<"GET",    <<"merchant", "refunds">>,                       "ListRefundHistory">>,
   <<"POST",   <<"merchant", "refunds">>,                       "RequestRefund">>,
   <<"GET",    <<"merchant", "topups">>,                        "ListTopUpHistory">>,
   <<"POST",   <<"merchant", "topups">>,                        "RequestTopUp">>,
   <<"GET",    <<"pay", "*">>,                                  "ResolvePaymentLink">>,
   <<"POST",   <<"pay", "*", "intents">>,                       "CreatePaymentIntent">>}

(* codegenServerAdapter: the handler that serves an operation.             *)
Adapter ==
  [Health |-> "Health", Login |-> "LoginGin", Refresh |-> "RefreshGin", Register |-> "RegisterGin",
   AdminDashboard |-> "AdminOnly", GetDashboardStats |-> "Stats",
   ListInvoices |-> "ListInvoicesGin", CreateInvoice |-> "CreateInvoiceGin",
   DeleteInvoice |-> "DeleteInvoiceGin", GetInvoice |-> "GetInvoiceGin",
   UpdateInvoice |-> "UpdateInvoiceGin", MerchantProfile |-> "MerchantOnly",
   ListRefundHistory |-> "ListHistory", RequestRefund |-> "RequestRefund",
   ListTopUpHistory |-> "History", RequestTopUp |-> "RequestTopUp",
   SimulatePaymentIntent |-> "SimulatePaymentIntent", ApproveRefund |-> "ApproveRefund",
   RejectRefund |-> "RejectRefund", ProcessRefund |-> "ProcessRefund",
   UpdateTopUpStatus |-> "AdminUpdate", ResolvePaymentLink |-> "ResolvePaymentLink",
   CreatePaymentIntent |-> "CreatePaymentIntent"]

Below(path, group) == Len(path) > 1 /\ Head(path) = group

(* Mistake: only the paths below /invoices are checked.                    *)
CodegenOpenBelow(path) ==
  CASE path = <<"auth", "refresh">> -> AnyRole
    [] Below(path, "invoices") -> {"MERCHANT", "ADMIN"}
    [] Below(path, "merchant") -> {"MERCHANT"}
    [] Below(path, "admin") -> {"ADMIN"}
    [] OTHER -> Public

(* codegenMiddleware: the prefix decides.                                  *)
CodegenOpen(path) ==
  CASE path = <<"auth", "refresh">> -> AnyRole
    [] Head(path) = "invoices" -> {"MERCHANT", "ADMIN"}
    [] Below(path, "merchant") -> {"MERCHANT"}
    [] Below(path, "admin") -> {"ADMIN"}
    [] OTHER -> Public

(* What each route answers each identity: the wrapper calls the middleware,*)
(* and the handler unless that aborted.                                    *)
CodegenAnswers ==
  {<<r[1], r[2], id, Answer(CodegenOpen(r[2]), id, Adapter[r[3]])>> :
     r \in CodegenRoutes, id \in Identities}

-----------------------------------------------------------------------------
(* NewRouter                                                               *)

In(group, open, routes) ==
  {<<r[1], group \o r[2], id, Answer(open, id, r[3])>> : r \in routes, id \in Identities}

RouterAnswers ==
  UNION
  {In(<<>>, Public,
      {<<"POST", <<"auth", "login">>, "LoginGin">>, <<"POST", <<"auth", "register">>, "RegisterGin">>,
       <<"GET", <<"health">>, "Health">>, <<"GET", <<"pay", "*">>, "ResolvePaymentLink">>,
       <<"POST", <<"pay", "*", "intents">>, "CreatePaymentIntent">>}),
   In(<<>>, AnyRole, {<<"POST", <<"auth", "refresh">>, "RefreshGin">>}),
   In(<<"invoices">>, {"MERCHANT", "ADMIN"},
      {<<"GET", <<>>, "ListInvoicesGin">>, <<"POST", <<>>, "CreateInvoiceGin">>,
       <<"GET", <<"*">>, "GetInvoiceGin">>, <<"PUT", <<"*">>, "UpdateInvoiceGin">>,
       <<"DELETE", <<"*">>, "DeleteInvoiceGin">>}),
   In(<<"merchant">>, {"MERCHANT"},
      {<<"GET", <<"profile">>, "MerchantOnly">>, <<"POST", <<"refunds">>, "RequestRefund">>,
       <<"GET", <<"refunds">>, "ListHistory">>, <<"POST", <<"topups">>, "RequestTopUp">>,
       <<"GET", <<"topups">>, "History">>}),
   In(<<"admin">>, {"ADMIN"},
      {<<"GET", <<"dashboard">>, "AdminOnly">>, <<"GET", <<"dashboard", "stats">>, "Stats">>,
       <<"POST", <<"payment-intents", "*", "simulate">>, "SimulatePaymentIntent">>,
       <<"POST", <<"refunds", "*", "approve">>, "ApproveRefund">>,
       <<"POST", <<"refunds", "*", "reject">>, "RejectRefund">>,
       <<"POST", <<"refunds", "*", "process">>, "ProcessRefund">>,
       <<"POST", <<"topups", "*", "status">>, "AdminUpdate">>})}

(* The roles the wired router opens a handler to.                          *)
OpenTo(handler) == {a[3] : a \in {b \in CodegenAnswers : b[4] = handler}}
=============================================================================
