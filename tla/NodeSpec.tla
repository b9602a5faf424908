------------------------------- MODULE NodeSpec -------------------------------
(***************************************************************************)
(* The pod that runs a CR's simulated kubelet (internal/util/node.go):     *)
(* what CreateNodePodObj makes of the CR's specification, what the API     *)
(* server makes of that, and what IsDesired compares with the CR later.    *)
(*                                                                         *)
(* A slice, map or pointer that may be nil is a set: empty for nil, else   *)
(* with the value as its only element, so that nil and empty differ, as    *)
(* they do for reflect.DeepEqual.                                          *)
(*                                                                         *)
(* The key and the value of a label are texts, which matter by the "," and *)
(* "=" in them: a text is the sequence of its pieces between ",", and a    *)
(* piece the sequence of its words between "=".  No word has a "%", which  *)
(* fmt.Sprintf would take for a verb.                                      *)
(***************************************************************************)
EXTENDS Integers, SequencesExt

CONSTANTS
    AccountSecrets,  \* pull secrets of the namespace's service account
    Added            \* what admission adds to a pod, for each field it adds to

Listed == {"tolerations", "volumes", "mounts"}

Nil == {}
Some(x) == {x}

ASSUME AddedAssumption == DOMAIN Added = Listed

\* As everything the API server has written, they are not an empty list.
ASSUME AccountSecretsAssumption == AccountSecrets # Some({})

\* defaultString
DefaultString(val, default) == IF val = "" THEN default ELSE val

\* GetNodeLabels
GetNodeLabels(cr) == [name |-> cr.name, component |-> "kube-mock", partOf |-> "node"]

\* createSecurityContext
CreateSecurityContext(context) == IF context = Nil THEN Some("user1000") ELSE context

\* pullPolicy
PullPolicy(policy) == IF policy = "" THEN "IfNotPresent" ELSE policy

\* The text of a word, without "," and "=".
Word(word) == <<<<word>>>>

\* A key, "=" and a value: their words at the "=" are in one piece.
Line(key, value) == Front(key) \o <<Last(key) \o Head(value)>> \o Tail(value)

\* LabelsMapToStr sorts the lines and joins them by ",", so that its text says no
\* more than which lines there are.
LabelsMapToStr(labels) == {Line(key, labels[key]) : key \in DOMAIN labels}

(***************************************************************************)
(* createNodeCommand, flag by flag.  The texts of cpu, memory and pods are *)
(* those of resource.Quantity, which are "0" for none and never "".  The   *)
(* labels and taints have no flag when there are none.                     *)
(***************************************************************************)
CreateNodeCommand(cr) ==
    [nodename              |-> cr.name,
     cpu                   |-> DefaultString(cr.cpu, "20"),
     memory                |-> DefaultString(cr.memory, "100Gi"),
     pods                  |-> DefaultString(cr.pods, "200"),
     startupTimeout        |-> DefaultString(cr.startupTimeout, "10s"),
     statusUpdatesInterval |-> DefaultString(cr.statusUpdatesInterval, "1s"),
     logLevel              |-> DefaultString(cr.logLevel, "debug"),
     klogV                 |-> DefaultString(cr.klogV, "2"),
     labels                |-> IF DOMAIN cr.labels = {} THEN Nil
                               ELSE Some(LabelsMapToStr(cr.labels)),
     taints                |-> IF cr.taints = {} THEN Nil ELSE Some(cr.taints)]

\* createNodeEnv
CreateNodeEnv(cr) ==
    [VKUBELET_POD_IP |-> DefaultString(cr.address, "192.168.1.1"),
     KUBELET_PORT    |-> IF cr.port = 0 THEN 10250 ELSE cr.port,
     KUBECONFIG      |-> IF cr.kubeconfigSecret # "" THEN Some("/app/conf/config") ELSE Nil]

\* Does createNodeVolumes, or createNodeVolumeMounts, add the kubeconfig's?
HasSecret(cr) ==
    cr.kubeconfigSecret # "" \/ cr.apiserverCertSecret # "" \/ cr.apiserverKeySecret # ""

\* createNodeVolumes
CreateNodeVolumes(cr) ==
    {v \in {[name |-> "kubeconfig", secret |-> cr.kubeconfigSecret],
            [name |-> "apiserver-cert", secret |-> cr.apiserverCertSecret],
            [name |-> "apiserver-key", secret |-> cr.apiserverKeySecret]} :
       IF v.name = "kubeconfig" THEN HasSecret(cr) ELSE v.secret # ""}

\* createNodeVolumeMounts: each of the volumes is mounted.
CreateNodeVolumeMounts(cr) == {v.name : v \in CreateNodeVolumes(cr)}

\* CreateNodePodObj, with the one container that createContainer makes.
CreateNodePodObj(cr) ==
    [namespace        |-> cr.namespace,
     labels           |-> GetNodeLabels(cr),
     affinity         |-> cr.affinity,
     tolerations      |-> cr.tolerations,
     nodeSelector     |-> cr.nodeSelector,
     securityContext  |-> CreateSecurityContext(cr.securityContext),
     imagePullSecrets |-> cr.imagePullSecrets,
     volumes          |-> CreateNodeVolumes(cr),
     image            |-> cr.image,
     imagePullPolicy  |-> PullPolicy(cr.imagePullPolicy),
     command          |-> CreateNodeCommand(cr),
     requests         |-> cr.requests,
     limits           |-> cr.limits,
     claims           |-> cr.claims,
     env              |-> CreateNodeEnv(cr),
     mounts           |-> CreateNodeVolumeMounts(cr)]

-----------------------------------------------------------------------------
(***************************************************************************)
(* The API server, as far as the comparison depends on it                  *)
(***************************************************************************)

\* An empty slice or map is left out of what is sent (omitempty).
OmitEmpty(x) == IF x = Some({}) THEN Nil ELSE x

\* So is an empty map of quantities.
OmitEmptyList(lists) == {list \in lists : DOMAIN list # {}}

\* A quantity as the API server writes it: 1000m becomes 1.
Canonical(q) == [q EXCEPT !.canonical = TRUE]

CanonicalList(list) == [r \in DOMAIN list |-> Canonical(list[r])]

\* What is written of the quantities that there may be.
Written(lists) == {CanonicalList(list) : list \in OmitEmptyList(lists)}

\* Requests and limits in one: a resource with a limit and no request requests
\* its limit.
Completed(requests, limits) ==
    [r \in DOMAIN requests \cup DOMAIN limits |->
        IF r \in DOMAIN requests THEN requests[r] ELSE limits[r]]

DefaultRequests(requests, limits) ==
    IF requests = Nil THEN limits
    ELSE IF limits = Nil THEN requests
    ELSE {Completed(request, limit) : request \in requests, limit \in limits}

\* It takes no volume of a secret without a name.  What else it refuses does not
\* depend on how the code puts the pod together.
IsValid(pod) == \A v \in pod.volumes : v.secret # ""

\* The pod that is stored when CreateNodePodObj's is created.
Admit(pod) ==
    [pod EXCEPT !.tolerations = @ \cup Added["tolerations"],
                !.volumes = @ \cup Added["volumes"],
                !.mounts = @ \cup Added["mounts"],
                !.nodeSelector = OmitEmpty(@),
                !.imagePullSecrets = IF OmitEmpty(@) = Nil THEN AccountSecrets ELSE @,
                !.requests = DefaultRequests(Written(@), Written(pod.limits)),
                !.limits = Written(@),
                !.claims = Nil]  \* The pod declares none that they could be of.

\* The CR that is stored when Reconcile has read it and updates it.
Encode(cr) ==
    [cr EXCEPT !.nodeSelector = OmitEmpty(@),
               !.imagePullSecrets = OmitEmpty(@),
               !.requests = Written(@),
               !.limits = Written(@),
               !.claims = OmitEmpty(@)]

-----------------------------------------------------------------------------
(***************************************************************************)
(* IsDesired                                                               *)
(***************************************************************************)

\* Variant for the mutation runs: compared like everything else.
ContainsExactly(all, item) == item = all

\* containsTolerations, containsVolumes, containsVolumeMounts
ContainsAll(all, item) == item \subseteq all

\* containerEqual(getContainer(pod), createContainer(cr))
ContainerEqual(pod, cr) ==
    /\ pod.image = cr.image
    /\ PullPolicy(pod.imagePullPolicy) = PullPolicy(cr.imagePullPolicy)
    /\ pod.command = CreateNodeCommand(cr)
    /\ pod.requests = cr.requests
    /\ pod.limits = cr.limits
    /\ pod.claims = cr.claims
    /\ pod.env = CreateNodeEnv(cr)
    /\ ContainsAll(pod.mounts, CreateNodeVolumeMounts(cr))

IsDesired(cr, pod) ==
    /\ pod.namespace = cr.namespace
    /\ pod.labels = GetNodeLabels(cr)
    /\ pod.affinity = cr.affinity
    /\ ContainsAll(pod.tolerations, cr.tolerations)
    /\ pod.nodeSelector = cr.nodeSelector
    /\ pod.securityContext = CreateSecurityContext(cr.securityContext)
    /\ pod.imagePullSecrets = cr.imagePullSecrets
    /\ ContainsAll(pod.volumes, CreateNodeVolumes(cr))
    /\ ContainerEqual(pod, cr)

-----------------------------------------------------------------------------
(***************************************************************************)
(* What the properties are stated with                                     *)
(***************************************************************************)

\* A map of quantities that is there is not empty, and is canonical.
WellWritten(lists) ==
    \A list \in lists : DOMAIN list # {} /\ \A r \in DOMAIN list : list[r].canonical

\* The API server takes the CR's pod and leaves alone what IsDesired compares
\* exactly: no list or map is there and empty, resources are complete and
\* canonical, and the service account has no pull secrets to lend.
LeftAlone(cr) ==
    /\ cr.kubeconfigSecret # "" \/ ~HasSecret(cr)
    /\ cr.nodeSelector # Some({})
    /\ cr.imagePullSecrets # Some({})
    /\ cr.imagePullSecrets = Nil => AccountSecrets = Nil
    /\ WellWritten(cr.requests)
    /\ WellWritten(cr.limits)
    /\ \A limit \in cr.limits :
         \E request \in cr.requests : DOMAIN limit \subseteq DOMAIN request
    /\ cr.claims = Nil

\* A pod has what the CR asks for: all of it where fields are single values,
\* at least that where they are lists that others add to.
Follows(pod, cr) ==
    LET want == CreateNodePodObj(cr)
    IN  \A f \in DOMAIN want :
          IF f \in Listed THEN want[f] \subseteq pod[f] ELSE pod[f] = want[f]
=============================================================================
