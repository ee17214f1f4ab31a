---------------------------- MODULE TemplateEdits ----------------------------
(***************************************************************************)
(* The template edits of controllers/object_controls.go that the           *)
(* specializers share: setContainerEnv, the loop that applies the          *)
(* ClusterPolicy's env list with it, and setDaemonSetSelector.  A          *)
(* container's env is a sequence of [name, value] records (corev1.EnvVar   *)
(* without ValueFrom); a node selector is a function from label keys to    *)
(* values, the nil map being the empty function.                           *)
(***************************************************************************)
EXTENDS Naturals, Sequences, SequencesExt, TLC

\* Mutant: the variable is appended whether or not the container has it.
SetContainerEnvAppend(env, key, value) ==
    Append(env, [name |-> key, value |-> value])

\* setContainerEnv: the first entry named key takes the value and the scan
\* returns; when there is none, the variable is appended.
SetContainerEnv(env, key, value) ==
    LET i == SelectInSeq(env, LAMBDA e : e.name = key) IN
    IF i = 0 THEN Append(env, [name |-> key, value |-> value])
    ELSE [env EXCEPT ![i].value = value]

\* The env loop of TransformContainerRuntime and TransformDevicePlugin: the
\* ClusterPolicy's entries are applied in their order.
ApplyEnv(env, cfgEnv) ==
    FoldLeft(LAMBDA e, v : SetContainerEnv(e, v.name, v.value), env, cfgEnv)

\* setDaemonSetSelector: a nil selector becomes labels; otherwise each
\* label is written into the template's selector.
SetDaemonSetSelector(selector, labels) ==
    IF DOMAIN selector = {} THEN labels ELSE labels @@ selector

=============================================================================
