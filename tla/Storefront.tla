----------------------------- MODULE Storefront -----------------------------
(***************************************************************************)
(* src/main.rs: one server with the product views, which keep what they    *)
(* flatten in memory, and the image proxy, which keeps what it renders in  *)
(* files.  The same tokio runtime serves both; the server can stop at any  *)
(* await, and what it then has in memory is lost while the files and the   *)
(* database stay as they are.                                              *)
(***************************************************************************)
EXTENDS ProductViews, ImageCache

vars == <<viewVars, imageVars>>

Init == ViewInit /\ ImageInit

Viewed == \E r \in Request : view[r].pc # "idle"
Imaged == \E r \in Request : img[r].pc # "idle"

\* Products and pictures share nothing but the server, and the APIs nothing
\* but the database, which Change writes as they do: requests for several of
\* them would only interleave, so that all are for pictures, or all for
\* products by one API.
Alike(q) == \A s \in Request : \/ view[s].pc \in ViewEnded \ {"ok"}
                                \/ view[s].q.api = q.api

ViewProducts(r) ==
    \/ ViewStep(r)
    \/ ~Imaged /\ \E q \in ViewQuery : Alike(q) /\ AskView(r, q)

ViewImage(r) ==
    \/ ImageStep(r) \/ ImageFault(r)
    \/ ~Viewed /\ \E q \in ImageQuery : AskImage(r, q)

Restart == ViewCrash /\ ImageCrash

\* What is written before the first request that could see it might as well
\* have been there from the beginning.
Next ==
    \/ \E r \in Request : \/ ViewProducts(r) /\ UNCHANGED imageVars
                          \/ ViewImage(r) /\ UNCHANGED viewVars
    \/ Viewed /\ UNCHANGED imageVars
         /\ \E id \in Id, p \in Part : \E x \in Contents[<<id, p>>] : Change(id, p, x)
    \/ Imaged /\ (\E src \in Src : Replace(src)) /\ UNCHANGED viewVars
    \/ Restart

Spec == Init /\ [][Next]_vars
=============================================================================
