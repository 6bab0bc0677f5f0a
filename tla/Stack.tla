-------------------------------- MODULE Stack --------------------------------
(***************************************************************************)
(* The layers that main.py has ready and leaves off, as they would be put  *)
(* together: AuthMiddleware (Bearer) says who is calling, and behind it    *)
(* TenantIsolationMiddleware and the handlers (Documents) take that user,  *)
(* whoever it is.  Nothing else passes between them, so a behaviour looks  *)
(* either at the middleware, with nobody behind it, or at the handlers.    *)
(***************************************************************************)
EXTENDS Documents, Bearer

\* Nobody comes to the handlers.
AtTheDoor == mix = {}

StackInit == DocumentsInit /\ BearerInit /\ (~AtTheDoor => settings = Unset)

StackNext ==
    \/ Next /\ UNCHANGED bearer
    \/ AtTheDoor /\ BearerNext /\ UNCHANGED vars

StackSpec == StackInit /\ [][StackNext]_<<vars, bearer>>
==============================================================================
