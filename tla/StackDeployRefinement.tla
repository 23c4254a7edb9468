----------------------- MODULE StackDeployRefinement -----------------------
(***************************************************************************)
(* DeployStack implements Reconciler: its items are the files, each where  *)
(* it belongs, and the secrets of the stack.                               *)
(***************************************************************************)
EXTENDS StackDeploy

FileItem   == {"file"} \X File
SecretItem == {"secret"} \X Secret

\* A Caddy fragment belongs into the directory Caddy imports.
Place(f) == IF f \in Fragments THEN CaddyDir[f] ELSE disk[f]

wantBar == [x \in FileItem \cup SecretItem |->
               IF x \in FileItem THEN desired[x[2]] ELSE wanted[x[2]]]

haveBar == [x \in FileItem \cup SecretItem |->
               IF x \in FileItem THEN Place(x[2]) ELSE podman[x[2]]]

\* A run that could not dial the edge does not answer for the fragments.
scopeBar == {x \in FileItem \cup SecretItem :
                (x \in FileItem /\ x[2] \in Fragments) => (onEdge \/ edgeConn)}

Abstract == INSTANCE Reconciler WITH
                Item <- FileItem \cup SecretItem, Value <- Version,
                Nothing <- None, Broken <- Torn,
                want <- wantBar, have <- haveBar, busy <- (pc # "idle"),
                scope <- scopeBar, verdict <- result

\* DeployStack implements Reconciler: whatever fails, a run moves files and
\* secrets only towards what is rendered, breaks at most the one rendered file
\* whose upload it is cut off in, leaves what is not rendered alone, and
\* succeeds only when all it answers for is in place.
ImplementsReconciler == Abstract!Spec
=============================================================================
