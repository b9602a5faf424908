------------------------------- MODULE Kubelet -------------------------------
(***************************************************************************)
(* The v1.Node that a simulated kubelet registers: what runNode            *)
(* (cmd/node.go) and the provider (NewMockProvider, ConfigureNode) make of *)
(* the command and the environment of the kubelet's pod, which NodeSpec    *)
(* has made of a CR.                                                       *)
(***************************************************************************)
EXTENDS NodeSpec

CONSTANT VkLabels  \* the labels virtual-kubelet's NewNode starts with

ASSUME VkLabelsAssumption == DOMAIN VkLabels # {}

\* Where a line has pieces with this key.  An empty piece is passed over.
ReadsOf(line, key) == {i \in DOMAIN line : line[i] # <<"">> /\ Word(line[i][1]) = key}

\* What follows a second "=" is dropped; a piece without "=" has an empty value.
ValueOf(piece) == Word(IF Len(piece) > 1 THEN piece[2] ELSE "")

\* LabelsStrToMap: each piece sets the value of its key, so that the last one wins.
\* Of two lines with pieces of one key that is in the one that sort.Strings puts
\* last: any of them, but always the same.
LabelsStrToMap(lines) ==
    LET pieces == {piece \in UNION {Range(line) : line \in lines} : piece # <<"">>}
    IN  [key \in {Word(piece[1]) : piece \in pieces} |->
            LET line == CHOOSE line \in lines : ReadsOf(line, key) # {}
            IN  ValueOf(line[Max(ReadsOf(line, key))])]

\* The flag --labels, which may be missing.
Labels(command) == LabelsStrToMap(IF command.labels = Nil THEN {} ELSE UNION command.labels)

\* Variant for the mutation runs: a label that is there is kept.
WithLabelsKept(labels) ==
    [key \in DOMAIN VkLabels \cup DOMAIN labels |->
        IF key \in DOMAIN VkLabels THEN VkLabels[key] ELSE labels[key]]

\* withLabels: they are added to, or replace, those that are there.
WithLabels(labels) ==
    [key \in DOMAIN VkLabels \cup DOMAIN labels |->
        IF key \in DOMAIN labels THEN labels[key] ELSE VkLabels[key]]

\* withTaint: without the flag there is none, as --disable-taint is true.
WithTaint(command) == IF command.taints = Nil THEN {} ELSE UNION command.taints

\* NewMockProvider's defaults, and capacity.
Capacity(command) ==
    [cpu    |-> DefaultString(command.cpu, "20"),
     memory |-> DefaultString(command.memory, "100Gi"),
     pods   |-> DefaultString(command.pods, "20")]

\* patchDefaultLabels, for a node that has no label at all.
DefaultLabels == Word("created-by") :> Word("kube-mock") @@ Word("os") :> Word("linux")

PatchDefaultLabels(labels) == IF DOMAIN labels = {} THEN DefaultLabels ELSE labels

\* ConfigureNode, nodeAddresses and nodeDaemonEndpoints, on what the options of
\* NewNode, which run before it, have left.
ConfigureNode(pod) ==
    [name     |-> pod.command.nodename,
     labels   |-> PatchDefaultLabels(WithLabels(Labels(pod.command))),
     taints   |-> WithTaint(pod.command),
     capacity |-> Capacity(pod.command),
     address  |-> pod.env.VKUBELET_POD_IP,
     port     |-> pod.env.KUBELET_PORT]

-----------------------------------------------------------------------------
\* Texts: their pieces have words, if empty ones.
Texts == Seq(Seq(STRING) \ {<<>>}) \ {<<>>}

\* What the types of a CR's fields ensure: the text of a quantity is never empty,
\* and the keys and values of labels are texts.
IsCr(cr) ==
    /\ cr.cpu # "" /\ cr.memory # "" /\ cr.pods # ""
    /\ \A key \in DOMAIN cr.labels : key \in Texts /\ cr.labels[key] \in Texts

IsWord(text) == Len(text) = 1 /\ Len(text[1]) = 1

\* A label that is fit to pass as text: its key and its value have no "," or "=",
\* which the API server would refuse, and no other label's "," begins one of its
\* key, so that {c: "e", z: "x,c=d"} promises nothing of c.
IsFit(labels, key) ==
    /\ IsWord(key) /\ IsWord(labels[key])
    /\ \A other \in DOMAIN labels \ {key} : ReadsOf(Line(other, labels[other]), key) = {}

\* What a CR says of its v1.Node.  What it leaves out is for the code to choose;
\* of its labels those are promised that are fit.
StatusAsked(node, cr) ==
    /\ node.name = cr.name
    /\ node.capacity = [cpu |-> cr.cpu, memory |-> cr.memory, pods |-> cr.pods]
    /\ cr.address # "" => node.address = cr.address
    /\ cr.port # 0 => node.port = cr.port
    /\ \A key \in DOMAIN cr.labels :
         IsFit(cr.labels, key) =>
           key \in DOMAIN node.labels /\ node.labels[key] = cr.labels[key]
=============================================================================
