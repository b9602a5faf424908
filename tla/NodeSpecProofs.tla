---------------------------- MODULE NodeSpecProofs ----------------------------
(***************************************************************************)
(* Facts about the pod of a CR, for every CR: when the operator finds the  *)
(* pod that it has just created as it wants it, and what it means for a    *)
(* pod to be found so.                                                     *)
(***************************************************************************)
EXTENDS Kubelet, SequenceTheorems, TLAPS

CONSTANTS Amounts,   \* amounts of a resource
          Resources  \* kinds of resources

Quantity == [value : Amounts, canonical : BOOLEAN]

ResourceList == UNION {[S -> Quantity] : S \in SUBSET Resources}

\* What the theorems need to know of a CR's resources: either may be nil.
TypedCr(cr) ==
    /\ cr.requests \in {Nil} \cup {Some(list) : list \in ResourceList}
    /\ cr.limits \in {Nil} \cup {Some(list) : list \in ResourceList}

-----------------------------------------------------------------------------
(***************************************************************************)
(* What the API server does to a pod                                       *)
(***************************************************************************)

LEMMA CanonicalQuantity ==
    ASSUME NEW q \in Quantity
    PROVE  Canonical(q) = q <=> q.canonical
BY DEF Canonical, Quantity

LEMMA CanonicalResources ==
    ASSUME NEW list \in ResourceList
    PROVE  CanonicalList(list) = list <=> \A r \in DOMAIN list : list[r].canonical
<1>1. PICK S \in SUBSET Resources : list \in [S -> Quantity]
  BY DEF ResourceList
<1>2. CanonicalList(list) = list <=> \A r \in S : Canonical(list[r]) = list[r]
  BY <1>1 DEF CanonicalList
<1>3. \A r \in S : Canonical(list[r]) = list[r] <=> list[r].canonical
  BY <1>1, CanonicalQuantity
<1> QED BY <1>1, <1>2, <1>3

\* What is written of quantities is what was there if they are well written.
LEMMA WrittenLists ==
    ASSUME NEW lists, lists \in {Nil} \cup {Some(list) : list \in ResourceList}
    PROVE  /\ Written(lists) = lists <=> WellWritten(lists)
           /\ WellWritten(lists) => \A list \in lists : list \in ResourceList
  <1>1. CASE lists = Nil
    BY <1>1 DEF Written, OmitEmptyList, WellWritten, Nil
  <1>2. ASSUME NEW list \in ResourceList, lists = Some(list)
        PROVE  /\ Written(lists) = lists <=> WellWritten(lists)
               /\ WellWritten(lists) => \A l \in lists : l \in ResourceList
    <2>1. OmitEmptyList(lists) = IF DOMAIN list = {} THEN {} ELSE {list}
      BY <1>2 DEF OmitEmptyList, Some
    <2>2. Written(lists) = IF DOMAIN list = {} THEN {} ELSE {CanonicalList(list)}
      BY <2>1 DEF Written
    <2>3. Written(lists) = lists <=> DOMAIN list # {} /\ CanonicalList(list) = list
      BY <2>2, <1>2 DEF Some
    <2>4. WellWritten(lists)
            <=> DOMAIN list # {} /\ \A r \in DOMAIN list : list[r].canonical
      BY <1>2 DEF WellWritten, Some
    <2>5. \A l \in lists : l \in ResourceList
      BY <1>2 DEF Some
    <2> QED BY <2>3, <2>4, <2>5, CanonicalResources
  <1> QED BY <1>1, <1>2

\* If the limits are well written, the requests that are stored are those that
\* were asked for just if they are well written and cover the limits.
LEMMA StoredRequests ==
    ASSUME NEW requests, requests \in {Nil} \cup {Some(list) : list \in ResourceList},
           NEW limits, WellWritten(limits),
           limits \in {Nil} \cup {Some(list) : list \in ResourceList}
    PROVE  DefaultRequests(Written(requests), limits) = requests
             <=> /\ WellWritten(requests)
                 /\ \A limit \in limits :
                      \E request \in requests : DOMAIN limit \subseteq DOMAIN request
  <1> DEFINE stored == DefaultRequests(Written(requests), limits)
  <1>1. CASE requests = Nil
    <2>1. Written(requests) = Nil
      BY <1>1 DEF Written, OmitEmptyList, Nil
    <2>2. stored = limits
      BY <2>1 DEF DefaultRequests
    <2>3. WellWritten(requests)
      BY <1>1 DEF WellWritten, Nil
    <2>4. (\A limit \in limits : \E request \in requests : DOMAIN limit \subseteq DOMAIN request)
            <=> limits = requests
      BY <1>1 DEF Nil
    <2> HIDE DEF stored
    <2>5. stored = requests
            <=> /\ WellWritten(requests)
                /\ \A limit \in limits :
                     \E request \in requests : DOMAIN limit \subseteq DOMAIN request
      BY <2>2, <2>3, <2>4
    <2> QED BY <2>5 DEF stored
  <1>2. ASSUME NEW r \in ResourceList, requests = Some(r), DOMAIN r = {}
        PROVE  stored # requests /\ ~WellWritten(requests)
    <2>1. Written(requests) = Nil
      BY <1>2 DEF Written, OmitEmptyList, Nil, Some
    <2>2. stored = limits
      BY <2>1 DEF DefaultRequests
    <2> QED BY <1>2, <2>2 DEF WellWritten, Some
  <1>3. ASSUME NEW r \in ResourceList, requests = Some(r), DOMAIN r # {}
        PROVE  stored = requests
                 <=> /\ WellWritten(requests)
                     /\ \A limit \in limits : DOMAIN limit \subseteq DOMAIN r
    <2> DEFINE c == CanonicalList(r)
    <2>1. WellWritten(requests) <=> c = r
      BY <1>3, CanonicalResources DEF WellWritten, Some
    <2>2. Written(requests) = Some(c)
      BY <1>3 DEF Written, OmitEmptyList, Some
    <2>3. DOMAIN c = DOMAIN r
      BY DEF CanonicalList
    <2>4. CASE limits = Nil
      <3>1. stored = Some(c)
        BY <2>2, <2>4 DEF DefaultRequests, Some, Nil
      <3> QED BY <1>3, <2>1, <2>4, <3>1 DEF Some, Nil
    <2>5. ASSUME NEW l \in ResourceList, limits = Some(l)
          PROVE  stored = requests <=> c = r /\ DOMAIN l \subseteq DOMAIN r
      <3> HIDE DEF c
      <3>1. stored = Some(Completed(c, l))
        BY <2>2, <2>5 DEF DefaultRequests, Some, Nil
      <3>2. stored = requests <=> Completed(c, l) = r
        BY <1>3, <3>1 DEF Some
      <3>3. DOMAIN Completed(c, l) = DOMAIN r \cup DOMAIN l
        BY <2>3 DEF Completed
      <3>4. ASSUME DOMAIN l \subseteq DOMAIN r
            PROVE  Completed(c, l) = c
        <4>1. Completed(c, l) = [q \in DOMAIN c |-> c[q]]
          BY <2>3, <3>4 DEF Completed
        <4> QED BY <4>1 DEF c, CanonicalList
      <3> QED BY <3>2, <3>3, <3>4
    <2> QED BY <2>1, <2>4, <2>5 DEF Some
  <1>4. CASE \E r \in ResourceList : requests = Some(r)
    <2>1. PICK r \in ResourceList : requests = Some(r)
      BY <1>4
    <2>2. (\A limit \in limits : \E request \in requests : DOMAIN limit \subseteq DOMAIN request)
            <=> \A limit \in limits : DOMAIN limit \subseteq DOMAIN r
      BY <2>1 DEF Some
    <2> HIDE DEF stored
    <2>3. DOMAIN r = {} => stored # requests /\ ~WellWritten(requests)
      BY <1>2, <2>1
    <2>4. DOMAIN r # {} =>
            (stored = requests
               <=> /\ WellWritten(requests)
                   /\ \A limit \in limits : DOMAIN limit \subseteq DOMAIN r)
      BY <1>3, <2>1
    <2>5. stored = requests
            <=> /\ WellWritten(requests)
                /\ \A limit \in limits :
                     \E request \in requests : DOMAIN limit \subseteq DOMAIN request
      BY <2>2, <2>3, <2>4
    <2> QED BY <2>5 DEF stored
  <1> QED BY <1>1, <1>4

LEMMA StoredSelector ==
    ASSUME NEW x
    PROVE  OmitEmpty(x) = x <=> x # Some({})
BY DEF OmitEmpty, Some, Nil

LEMMA StoredSecrets ==
    ASSUME NEW x
    PROVE  (IF OmitEmpty(x) = Nil THEN AccountSecrets ELSE x) = x
             <=> x # Some({}) /\ (x = Nil => AccountSecrets = Nil)
BY AccountSecretsAssumption DEF OmitEmpty, Some, Nil

LEMMA ValidVolumes ==
    ASSUME NEW cr
    PROVE  IsValid(CreateNodePodObj(cr)) <=> cr.kubeconfigSecret # "" \/ ~HasSecret(cr)
<1> DEFINE kube == [name |-> "kubeconfig", secret |-> cr.kubeconfigSecret]
           cert == [name |-> "apiserver-cert", secret |-> cr.apiserverCertSecret]
           key == [name |-> "apiserver-key", secret |-> cr.apiserverKeySecret]
<1>1. /\ kube \in CreateNodeVolumes(cr) <=> HasSecret(cr)
      /\ cert \in CreateNodeVolumes(cr) <=> cert.secret # ""
      /\ key \in CreateNodeVolumes(cr) <=> key.secret # ""
      /\ CreateNodeVolumes(cr) \subseteq {kube, cert, key}
  BY DEF CreateNodeVolumes
<1>2. IsValid(CreateNodePodObj(cr)) <=> \A v \in CreateNodeVolumes(cr) : v.secret # ""
  BY DEF IsValid, CreateNodePodObj
<1>3. (\A v \in CreateNodeVolumes(cr) : v.secret # "") <=> (HasSecret(cr) => kube.secret # "")
  <2> HIDE DEF kube, cert, key
  <2> QED BY <1>1
<1> QED BY <1>2, <1>3 DEF HasSecret

-----------------------------------------------------------------------------
(***************************************************************************)
(* The pod that was just created                                           *)
(***************************************************************************)

\* The fields of a stored pod.
LEMMA StoredPod ==
    ASSUME NEW cr, NEW new, new = CreateNodePodObj(cr),
           NEW pod, pod = Admit(new)
    PROVE  /\ pod.namespace = cr.namespace
           /\ pod.labels = GetNodeLabels(cr)
           /\ pod.affinity = cr.affinity
           /\ pod.tolerations = cr.tolerations \cup Added["tolerations"]
           /\ pod.nodeSelector = OmitEmpty(cr.nodeSelector)
           /\ pod.securityContext = CreateSecurityContext(cr.securityContext)
           /\ pod.imagePullSecrets =
                IF OmitEmpty(cr.imagePullSecrets) = Nil THEN AccountSecrets
                                                        ELSE cr.imagePullSecrets
           /\ pod.volumes = CreateNodeVolumes(cr) \cup Added["volumes"]
           /\ pod.image = cr.image
           /\ pod.imagePullPolicy = PullPolicy(cr.imagePullPolicy)
           /\ pod.command = CreateNodeCommand(cr)
           /\ pod.requests = DefaultRequests(Written(cr.requests), Written(cr.limits))
           /\ pod.limits = Written(cr.limits)
           /\ pod.claims = Nil
           /\ pod.env = CreateNodeEnv(cr)
           /\ pod.mounts = CreateNodeVolumeMounts(cr) \cup Added["mounts"]
<1> HIDE DEF Nil
<1> QED BY DEF CreateNodePodObj, Admit

LEMMA PullPolicyTwice ==
    ASSUME NEW policy
    PROVE  PullPolicy(PullPolicy(policy)) = PullPolicy(policy)
BY DEF PullPolicy

\* The pod that the operator creates for a CR is taken by the API server, and is
\* what IsDesired wants when it comes back, exactly if none of the CR's lists and
\* maps is there and empty, its requests cover its limits, its quantities are
\* canonical, it claims nothing, no pull secrets are lent to it, and a certificate
\* comes with a kubeconfig: of any other CR the pod is refused, or deleted and
\* created again for ever.
THEOREM FreshPodDesired ==
    ASSUME NEW cr, TypedCr(cr)
    PROVE  IsValid(CreateNodePodObj(cr)) /\ IsDesired(cr, Admit(CreateNodePodObj(cr)))
             <=> LeftAlone(cr)
<1> DEFINE new == CreateNodePodObj(cr)
           pod == Admit(new)
<1>1. /\ pod.namespace = cr.namespace
      /\ pod.labels = GetNodeLabels(cr)
      /\ pod.affinity = cr.affinity
      /\ cr.tolerations \subseteq pod.tolerations
      /\ pod.securityContext = CreateSecurityContext(cr.securityContext)
      /\ CreateNodeVolumes(cr) \subseteq pod.volumes
      /\ pod.image = cr.image
      /\ PullPolicy(pod.imagePullPolicy) = PullPolicy(cr.imagePullPolicy)
      /\ pod.command = CreateNodeCommand(cr)
      /\ pod.env = CreateNodeEnv(cr)
      /\ CreateNodeVolumeMounts(cr) \subseteq pod.mounts
  BY StoredPod, PullPolicyTwice
<1>2. pod.nodeSelector = cr.nodeSelector <=> cr.nodeSelector # Some({})
  BY StoredPod, StoredSelector
<1>3. pod.imagePullSecrets = cr.imagePullSecrets
        <=> cr.imagePullSecrets # Some({}) /\ (cr.imagePullSecrets = Nil => AccountSecrets = Nil)
  BY StoredPod, StoredSecrets
<1>4. pod.limits = cr.limits <=> WellWritten(cr.limits)
  BY StoredPod, WrittenLists DEF TypedCr
<1>5. ASSUME WellWritten(cr.limits)
      PROVE  pod.requests = cr.requests
               <=> /\ WellWritten(cr.requests)
                   /\ \A limit \in cr.limits :
                        \E request \in cr.requests : DOMAIN limit \subseteq DOMAIN request
  <2>1. pod.requests = DefaultRequests(Written(cr.requests), cr.limits)
    BY <1>4, <1>5, StoredPod
  <2> HIDE DEF pod
  <2> QED BY <1>5, <2>1, StoredRequests DEF TypedCr
<1>6. IsValid(new) <=> cr.kubeconfigSecret # "" \/ ~HasSecret(cr)
  BY ValidVolumes
<1>7. pod.claims = Nil
  BY StoredPod
<1> HIDE DEF new, pod
<1>8. IsDesired(cr, pod) <=> /\ pod.nodeSelector = cr.nodeSelector
                             /\ pod.imagePullSecrets = cr.imagePullSecrets
                             /\ pod.requests = cr.requests
                             /\ pod.limits = cr.limits
                             /\ cr.claims = Nil
  BY <1>1, <1>7 DEF IsDesired, ContainerEqual, ContainsAll
<1> QED BY <1>2, <1>3, <1>4, <1>5, <1>6, <1>8 DEF LeftAlone, new, pod

-----------------------------------------------------------------------------
(***************************************************************************)
(* A pod that IsDesired accepts                                            *)
(***************************************************************************)

\* A pod that IsDesired accepts has all that the CR asks for, whatever CR it was
\* created from: accepting a pod leaves no edit of the CR behind.
THEOREM DesiredFollows ==
    ASSUME NEW cr, NEW other, IsDesired(cr, Admit(CreateNodePodObj(other)))
    PROVE  Follows(Admit(CreateNodePodObj(other)), cr)
<1> DEFINE pod == Admit(CreateNodePodObj(other))
           want == CreateNodePodObj(cr)
<1>1. pod.imagePullPolicy = PullPolicy(other.imagePullPolicy)
  BY StoredPod
<1>2. PullPolicy(pod.imagePullPolicy) = pod.imagePullPolicy
  BY <1>1, PullPolicyTwice
<1> HIDE DEF pod
<1>3. /\ want.namespace = pod.namespace
      /\ want.labels = pod.labels
      /\ want.affinity = pod.affinity
      /\ want.tolerations \subseteq pod.tolerations
      /\ want.nodeSelector = pod.nodeSelector
      /\ want.securityContext = pod.securityContext
      /\ want.imagePullSecrets = pod.imagePullSecrets
      /\ want.volumes \subseteq pod.volumes
      /\ want.image = pod.image
      /\ want.imagePullPolicy = pod.imagePullPolicy
      /\ want.command = pod.command
      /\ want.requests = pod.requests
      /\ want.limits = pod.limits
      /\ want.claims = pod.claims
      /\ want.env = pod.env
      /\ want.mounts \subseteq pod.mounts
  BY <1>2 DEF IsDesired, ContainerEqual, ContainsAll, CreateNodePodObj, pod
<1>4. DOMAIN want =
        {"namespace", "labels", "affinity", "tolerations", "nodeSelector", "securityContext",
         "imagePullSecrets", "volumes", "image", "imagePullPolicy", "command", "requests",
         "limits", "claims", "env", "mounts"}
  BY DEF CreateNodePodObj
<1> HIDE DEF want
<1>5. \A f \in DOMAIN want :
        IF f \in Listed THEN want[f] \subseteq pod[f] ELSE pod[f] = want[f]
  BY <1>3, <1>4 DEF Listed
<1> QED BY <1>5 DEF Follows, pod, want

-----------------------------------------------------------------------------
(***************************************************************************)
(* From the CR to the v1.Node                                              *)
(***************************************************************************)

LEMMA WordText ==
    ASSUME NEW text \in Texts, IsWord(text)
    PROVE  text = Word(text[1][1])
<1>1. text \in Seq(Seq(STRING)) /\ Len(text) = 1
  BY DEF Texts, IsWord
<1>2. text = <<text[1]>> /\ text[1] \in Seq(STRING)
  BY <1>1
<1>3. Len(text[1]) = 1
  BY DEF IsWord
<1>4. text[1] = <<text[1][1]>>
  BY <1>2, <1>3
<1> QED BY <1>2, <1>4 DEF Word

\* The line of a key and a value that are words.
LEMMA WordLine ==
    ASSUME NEW k, NEW v
    PROVE  Line(Word(k), Word(v)) = <<<<k, v>>>>
<1>1. Front(Word(k)) = <<>> /\ Last(Word(k)) = <<k>>
  BY DEF Word, Front, Last
<1>2. Head(Word(v)) = <<v>> /\ Tail(Word(v)) = <<>>
  BY DEF Word
<1>3. <<k>> \o <<v>> = <<k, v>>
  <2> DEFINE both == <<k>> \o <<v>>
  <2>1. <<k>> \in Seq({k, v}) /\ Len(<<k>>) = 1 /\ <<v>> \in Seq({k, v}) /\ Len(<<v>>) = 1
    OBVIOUS
  <2>2. both \in Seq({k, v}) /\ Len(both) = 2
    BY <2>1, ConcatProperties
  <2>3. both[1] = k /\ both[2] = v
    BY <2>1
  <2> HIDE DEF both
  <2>4. both = <<both[1], both[2]>>
    BY <2>2
  <2>5. both = <<k, v>>
    BY <2>3, <2>4
  <2> QED BY <2>5 DEF both
<1>4. Line(Word(k), Word(v)) = <<>> \o <<<<k, v>>>> \o <<>>
  BY <1>1, <1>2, <1>3 DEF Line
<1> QED BY <1>4

\* A label that is fit to pass as text arrives at the kubelet: its line is found
\* under its key, is the only one that is, and has its value.
LEMMA LabelArrives ==
    ASSUME NEW labels, NEW k \in DOMAIN labels, k \in Texts, labels[k] \in Texts,
           IsFit(labels, k)
    PROVE  LET read == LabelsStrToMap(LabelsMapToStr(labels))
           IN  k \in DOMAIN read /\ read[k] = labels[k]
<1> DEFINE lines == LabelsMapToStr(labels)
           piece == <<k[1][1], labels[k][1][1]>>
           mine == <<piece>>
<1>1. /\ DOMAIN mine = {1} /\ mine[1] = piece /\ piece # <<"">>
      /\ Len(piece) = 2 /\ piece[1] = k[1][1] /\ piece[2] = labels[k][1][1]
  OBVIOUS
<1>2. k = Word(k[1][1]) /\ labels[k] = Word(labels[k][1][1])
  BY WordText DEF IsFit
<1>3. mine = Line(k, labels[k]) /\ mine \in lines
  <2>1. mine = Line(k, labels[k])
    BY <1>2, WordLine
  <2> QED BY <2>1 DEF LabelsMapToStr
<1>4. k = Word(piece[1]) /\ labels[k] = Word(piece[2])
  BY <1>1, <1>2
<1> HIDE DEF mine, piece
<1>5. ReadsOf(mine, k) = {1}
  BY <1>1, <1>4 DEF ReadsOf
<1>6. \A line \in lines : ReadsOf(line, k) # {} => line = mine
  BY <1>3 DEF LabelsMapToStr, IsFit
<1> HIDE DEF lines
<1>7. (CHOOSE line \in lines : ReadsOf(line, k) # {}) = mine
  BY <1>3, <1>5, <1>6
<1>8. Max(ReadsOf(mine, k)) = 1
  BY <1>5 DEF Max
<1>9. piece \in UNION {Range(line) : line \in lines}
  <2>1. piece \in Range(mine)
    BY <1>1 DEF Range
  <2> QED BY <2>1, <1>3
<1>10. k \in DOMAIN LabelsStrToMap(lines)
  BY <1>1, <1>4, <1>9 DEF LabelsStrToMap
<1>11. LabelsStrToMap(lines)[k] = ValueOf(mine[1])
  <2> DEFINE found == CHOOSE line \in lines : ReadsOf(line, k) # {}
  <2>1. LabelsStrToMap(lines)[k] = ValueOf(found[Max(ReadsOf(found, k))])
    BY <1>10 DEF LabelsStrToMap
  <2>2. found = mine
    BY <1>7
  <2> HIDE DEF found
  <2> QED BY <2>1, <2>2, <1>8
<1>12. ValueOf(piece) = Word(piece[2])
  <2>1. Len(piece) > 1
    BY DEF piece
  <2> QED BY <2>1, Zenon DEF ValueOf
<1> QED BY <1>1, <1>4, <1>10, <1>11, <1>12 DEF lines

\* So does it arrive in the v1.Node, also if virtual-kubelet has a label of that
\* key.
LEMMA LabelConfigured ==
    ASSUME NEW cr, IsCr(cr), NEW k \in DOMAIN cr.labels, IsFit(cr.labels, k)
    PROVE  LET labels == ConfigureNode(Admit(CreateNodePodObj(cr))).labels
           IN  k \in DOMAIN labels /\ labels[k] = cr.labels[k]
<1> DEFINE command == CreateNodeCommand(cr)
           labels == Labels(command)
<1>1. command.labels = Some(LabelsMapToStr(cr.labels))
  BY DEF CreateNodeCommand
<1>2. labels = LabelsStrToMap(LabelsMapToStr(cr.labels))
  <2> HIDE DEF command
  <2>1. command.labels # Nil /\ UNION command.labels = LabelsMapToStr(cr.labels)
    BY <1>1 DEF Some, Nil
  <2> QED BY <2>1 DEF Labels
<1>3. k \in DOMAIN labels /\ labels[k] = cr.labels[k]
  BY <1>2, LabelArrives DEF IsCr
<1>4. Admit(CreateNodePodObj(cr)).command = command
  BY StoredPod
<1>5. ConfigureNode(Admit(CreateNodePodObj(cr))).labels = PatchDefaultLabels(WithLabels(labels))
  BY <1>4 DEF ConfigureNode
<1> HIDE DEF labels
<1>6. PatchDefaultLabels(WithLabels(labels)) = WithLabels(labels)
  BY <1>3 DEF PatchDefaultLabels, WithLabels
<1> QED BY <1>3, <1>5, <1>6 DEF WithLabels

LEMMA DefaultKept ==
    ASSUME NEW val, NEW default, val # ""
    PROVE  DefaultString(val, default) = val
BY DEF DefaultString

\* The v1.Node that a CR's kubelet registers is as the CR says: through the flags
\* and the environment of the pod, as the API server stores it, and the kubelet's
\* reading of them.
THEOREM ConfiguredAsAsked ==
    ASSUME NEW cr, IsCr(cr)
    PROVE  /\ StatusAsked(ConfigureNode(Admit(CreateNodePodObj(cr))), cr)
           /\ ConfigureNode(Admit(CreateNodePodObj(cr))).taints = cr.taints
<1> DEFINE pod == Admit(CreateNodePodObj(cr))
           node == ConfigureNode(pod)
<1>1. pod.command = CreateNodeCommand(cr) /\ pod.env = CreateNodeEnv(cr)
  BY StoredPod
<1>2. \A k \in DOMAIN cr.labels :
        IsFit(cr.labels, k) => k \in DOMAIN node.labels /\ node.labels[k] = cr.labels[k]
  BY LabelConfigured
<1> HIDE DEF pod
<1>3. node.name = cr.name
  BY <1>1 DEF ConfigureNode, CreateNodeCommand
<1>4. node.capacity = [cpu |-> cr.cpu, memory |-> cr.memory, pods |-> cr.pods]
  <2>1. node.capacity = Capacity(CreateNodeCommand(cr))
    BY <1>1 DEF ConfigureNode
  <2>2. /\ CreateNodeCommand(cr).cpu = cr.cpu
        /\ CreateNodeCommand(cr).memory = cr.memory
        /\ CreateNodeCommand(cr).pods = cr.pods
    BY DefaultKept DEF CreateNodeCommand, IsCr
  <2> QED BY <2>1, <2>2, DefaultKept DEF Capacity, IsCr
<1>5. /\ cr.address # "" => node.address = cr.address
      /\ cr.port # 0 => node.port = cr.port
  <2>1. node.address = CreateNodeEnv(cr).VKUBELET_POD_IP /\ node.port = CreateNodeEnv(cr).KUBELET_PORT
    BY <1>1 DEF ConfigureNode
  <2>2. CreateNodeEnv(cr).VKUBELET_POD_IP = DefaultString(cr.address, "192.168.1.1")
    BY DEF CreateNodeEnv
  <2>3. cr.port # 0 => CreateNodeEnv(cr).KUBELET_PORT = cr.port
    BY DEF CreateNodeEnv
  <2> QED BY <2>1, <2>2, <2>3, DefaultKept
<1>6. node.taints = cr.taints
  <2>1. pod.command.taints = IF cr.taints = {} THEN Nil ELSE Some(cr.taints)
    BY <1>1 DEF CreateNodeCommand
  <2>2. node.taints = WithTaint(pod.command)
    BY DEF ConfigureNode
  <2> QED BY <2>1, <2>2 DEF WithTaint, Nil, Some
<1> QED BY <1>2, <1>3, <1>4, <1>5, <1>6 DEF StatusAsked, pod
=============================================================================
