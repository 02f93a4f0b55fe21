------------------------------- MODULE MCTiny -------------------------------
(* One client asks for anything, the other, which may come before, for a page. *)
EXTENDS Tiny, TLC

CONSTANTS c1, c2

MCPaths == {"/", "/home", "/empty", "/private", "/cgi-bin"}
MCDynamic == {"/cgi-bin"}
MCHomeOf == "/" :> "/home"
MCExtensions == [p \in MCPaths |-> IF p = "/home" THEN {"html", "gif"} ELSE {}]
MCDisk == "/" :> "missing" @@ "/home" :> "page" @@ "/empty" :> "empty"
          @@ "/private" :> "forbidden" @@ "/cgi-bin" :> "program"

AskFor(method, path, headers, op) ==
    [method |-> method, path |-> path, headers |-> headers, op |-> op]

(* With MAXLINE = 3 a header of two elements fills the buffer. *)
MCRequests ==
    c1 :> {AskFor("GET", "/empty", <<>>, "readn"), AskFor("GET", "/private", <<>>, "readn"),
           AskFor("GET", "/cgi-bin", <<>>, "readnb"),
           AskFor("GET", "/home", << <<"Host">> >>, "readlineb"),
           AskFor("GET", "/home", << <<"Long", "line">> >>, "readlineb"),
           AskFor("POST", "/home", <<>>, "readnb"), AskFor("blank", "/home", <<>>, "readlineb")}
    @@ c2 :> {AskFor("GET", "/", <<>>, "readlineb")}

=============================================================================
