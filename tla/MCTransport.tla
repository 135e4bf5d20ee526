----------------------------- MODULE MCTransport -----------------------------
(* Transport with binary digits and frames of at most three bytes. *)
EXTENDS Transport, TLC

AllValues == {"small", "full", "growing"}

Texts == "small" :> <<1>> @@ "full" :> <<1, 0, 1>> @@ "growing" :> <<1, 1, 0, 0>>

(* The canonical texts, a padded one, and a short one of the growing value. *)
Json == <<1>> :> "small" @@ <<0, 1>> :> "small" @@ <<1, 0, 1>> :> "full"
        @@ <<1, 1>> :> "growing" @@ <<1, 1, 0, 0>> :> "growing"

Frame(text) == <<0, Len(text) \div 4, (Len(text) \div 2) % 2, Len(text) % 2>> \o text

Fragments == {
  Frame(<<1, 0, 1>>),           \* a frame of the largest size
  Frame(<<0, 1>>),              \* a padded text
  Frame(<<1, 1>>),              \* grows when it is encoded again
  Frame(<<0, 0>>),              \* not JSON
  <<0, 0, 0, 0>>,               \* a frame of no bytes
  <<0, 1, 0, 0, 0, 0, 0, 0>>,   \* one byte over the limit
  <<0, 0, 1, 1, 1>>,            \* lacks two bytes
  <<>> }

AllStreams == {a \o b \o c : a \in Fragments, b \in Fragments, c \in Fragments}

=============================================================================
