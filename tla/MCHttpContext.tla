--------------------------- MODULE MCHttpContext ---------------------------
(* Model-checking instance of HttpContext for two requests on one connection. *)
EXTENDS HttpContext, HttpRequests
=============================================================================
