----------------------------- MODULE MCAppStorage -----------------------------
(* Instances of AppStorage: good images, and images with one thing wrong.    *)
EXTENDS AppStorage

CONSTANT App   \* a user name

UsersDef == [n \in {App} |-> 2]
GroupsDef == [n \in {App} |-> 1]

Hash(f) == [ty |-> "sha256", val |-> <<f.tar>> \o f.rest]
Layer(tar, rest) == [tar |-> tar, rest |-> rest]
A == Layer("a", <<>>)
B == Layer("b", <<"pad">>)
TarOnly == [ty |-> "sha256", val |-> <<"b">>]

\* A manifest with its config: two layers, run as root.
Good == [config |-> [named |-> TRUE, fields |-> Required, arch |-> "arm64",
                     diff_ids |-> <<Hash(A), Hash(B)>>, argv |-> <<"app">>,
                     uid |-> NoId, gid |-> NoId],
         layers |-> <<A, B>>]
Amd == [Good EXCEPT !.config.arch = "amd64"]
As(u, g) == [Good EXCEPT !.config.uid = u, !.config.gid = g]
Of(ms) == [trusted |-> TRUE, manifests |-> ms]

Images == {
  Of(<<Amd, Good>>),                                            \* two architectures
  Of(<<[Amd EXCEPT !.config.fields = Required \ {"ArgsEscaped"}], Good>>),
  Of(<<[Good EXCEPT !.config.named = FALSE]>>),
  [Of(<<Good>>) EXCEPT !.trusted = FALSE],
  Of(<<[Good EXCEPT !.layers = <<B, A>>]>>),                    \* swapped layers
  Of(<<[Good EXCEPT !.layers = <<A>>]>>),                       \* a layer is missing
  Of(<<[Good EXCEPT !.config.diff_ids[2].ty = "md5"]>>),
  Of(<<[Good EXCEPT !.config.diff_ids = <<TarOnly, Hash(A)>>, !.layers = <<B, A>>]>>),
  Of(<<As(2, NoId)>>), Of(<<As(2, 1)>>), Of(<<As(0, 1)>>),      \* uid and gid
  Of(<<As(App, 11)>>), Of(<<[Good EXCEPT !.config.argv = <<>>]>>)}
=============================================================================
