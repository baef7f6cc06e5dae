----------------------------- MODULE SshScripts -----------------------------
(***************************************************************************)
(* The five tools of pus-12 as sequences of calls: the functions they      *)
(* share in libcommon.c, then each main() with its authenticate_user().    *)
(* A function that fails makes its caller exit, so a failing step of a     *)
(* function dies; one that succeeds falls off the end of its sequence.     *)
(***************************************************************************)
EXTENDS CallSequence

(* "free" gives back what "addr" or "username" points at; on the error path *)
(* the user name may never have been set, as malloc() does not clear it.    *)
free_connection_data == <<Release("free username", "username"), Release("free", "cd")>>

(* The loop over the arguments: a port, a user@host, anything else, no more. *)
(* goto free and the exit of the caller are the last two steps.             *)
parse_connection_data ==
  <<Try("argc", {}),
    Get("malloc", {}, "cd"),
    OnError([Call("next argument", {"cd"}) EXCEPT !.ok = {0, 1, 2, 6}], 7),
    OnError([Call("strtol", {}) EXCEPT !.ok = {-1}], 6),
    GetOrGoOn("malloc username", {}, "username"),
    Call("memcpy username", {"username"}),
    OnError([Get("getaddrinfo", {}, "addresses") EXCEPT !.ok = {1}], 3),
    [Release("freeaddrinfo", "addresses") EXCEPT !.ok = {-5}],
    IfHeld([Call("required", {}) EXCEPT !.ok = {4}], "username")>>
  \o free_connection_data
  \o <<[Try("return NULL", {}) EXCEPT !.ok = {}]>>

establish_tcp_connection ==
  <<Get("socket", {"cd"}, "socket"), Try("connect", {"socket"})>>

(* The result of fgets() is not tested: at the end of the input the answer  *)
(* is what the array holds.                                                 *)
authenticate_server ==
  <<Try("libssh2_hostkey_hash", {"session", "started"}),
    GetOrGoOn("fgets", {}, "answer"),
    Get("strncmp", {"answer"}, "trusted")>>

(* Without a terminal the standard input is read and nothing is changed.    *)
(* What was read before is overwritten from its first character on.         *)
get_password_unblocked_early ==
  <<GetOrGoOn("open /dev/tty", {}, "tty"),
    [Call("sigprocmask block", {}) EXCEPT !.gives = {"blocked"}],
    IfHeld(GetOrGoOn("tcsetattr", {"tty"}, "noecho"), "tty"),
    [Call("write prompt", {}) EXCEPT !.frees = {"password"}],
    [OnError(OrTo(Call("read", {}), 0), 1) EXCEPT !.gives = {"password"}],
    Release("sigprocmask restore", "blocked"),
    IfHeld(Release("tcsetattr restore", "noecho"), "noecho"),
    IfHeld(Release("close tty", "tty"), "tty"),
    IfHeld([Call("return 0", {}) EXCEPT !.ok = {2}], "password"),
    [Try("return -1", {}) EXCEPT !.ok = {}]>>

get_password ==
  <<GetOrGoOn("open /dev/tty", {}, "tty"),
    [Call("sigprocmask block", {}) EXCEPT !.gives = {"blocked"}],
    IfHeld(GetOrGoOn("tcsetattr", {"tty"}, "noecho"), "tty"),
    [Call("write prompt", {}) EXCEPT !.frees = {"password"}],
    [OnError(OrTo(Call("read", {}), 0), 1) EXCEPT !.gives = {"password"}],
    IfHeld(Release("tcsetattr restore", "noecho"), "noecho"),
    Release("sigprocmask restore", "blocked"),
    IfHeld(Release("close tty", "tty"), "tty"),
    IfHeld([Call("return 0", {}) EXCEPT !.ok = {2}], "password"),
    [Try("return -1", {}) EXCEPT !.ok = {}]>>

(* for (;;): ask again until the server accepts; the buffer is cleared then. *)
AskUntilAccepted(method) ==
  get_password
  \o <<OnError(Get(method, {"session", "username", "password"}, "user"), -Len(get_password)),
       Release("memset password", "password")>>

(* Arguments, connection, key exchange, server, in that order in every main(). *)
(* A tool that goes on although the server was not accepted.                   *)
Prologue_unverified ==
  parse_connection_data \o establish_tcp_connection
  \o <<Get("libssh2_session_init", {}, "session"),
       Get("libssh2_session_startup", {"session", "socket"}, "started")>>
  \o [authenticate_server EXCEPT ![3].err = {1}]

Prologue ==
  parse_connection_data \o establish_tcp_connection
  \o <<Get("libssh2_session_init", {}, "session"),
       Get("libssh2_session_startup", {"session", "socket"}, "started")>>
  \o authenticate_server

Epilogue ==
  <<TryRelease("libssh2_session_disconnect", "started"),
    TryRelease("libssh2_session_free", "session"),
    Release("close", "socket")>>
  \o free_connection_data

(* The list of methods is asked for by trying "none"; when that succeeds     *)
(* there is no list, which is taken for failure by all but authlist.         *)
UserauthList == <<Try("libssh2_userauth_list", {"session", "started", "username"})>>

authlist_authenticate_user ==
  <<[Try("libssh2_userauth_list", {"session", "started", "username"}) EXCEPT !.ok = {1, 2}],
    [Call("libssh2_userauth_authenticated", {"session"}) EXCEPT !.gives = {"user"}]>>

exec_authenticate_user ==
  UserauthList \o <<Try("strstr password", {})>>
  \o AskUntilAccepted("libssh2_userauth_password")

exec_rsa_authenticate_user ==
  UserauthList \o <<Try("strstr publickey", {})>>
  \o AskUntilAccepted("libssh2_userauth_publickey_fromfile_ex")

(* First the key, when the server knows it; then the password. *)
sftp_authenticate_user ==
  LET password == <<Try("strstr password", {})>> \o AskUntilAccepted("libssh2_userauth_password")
  IN  UserauthList
      \o <<OrTo(Call("strstr publickey", {}), 2),
           [OnError(Get("libssh2_userauth_publickey_fromfile", {"session", "username"}, "user"), 1)
              EXCEPT !.ok = {Len(password) + 1}]>>
      \o password

authlist == Prologue \o authlist_authenticate_user \o Epilogue

(* One command, its output, its exit status. *)
exec_channel ==
  <<Get("libssh2_channel_open_session", {"session", "started"}, "channel"),
    Try("libssh2_channel_exec", {"channel"}),
    OrTo(Try("libssh2_channel_read", {"channel"}), 0),
    Call("libssh2_channel_get_exit_status", {"channel"}),
    Try("libssh2_channel_close", {"channel"}),
    TryRelease("libssh2_channel_free", "channel")>>

exec == Prologue \o exec_authenticate_user \o exec_channel \o Epilogue
exec_rsa == Prologue \o exec_rsa_authenticate_user \o exec_channel \o Epilogue

(* mem is printed whatever readdir() returned; only then is that tested. *)
sftp_list ==
  <<Get("libssh2_sftp_init", {"session", "started"}, "sftp"),
    Get("libssh2_sftp_opendir", {"sftp", "username"}, "handle"),
    GetOrGoOn("libssh2_sftp_readdir", {"handle"}, "mem"),
    OrTo(Try("fprintf", {"mem"}), -1),
    TryRelease("libssh2_sftp_closedir", "handle")>>

sftp == Prologue \o sftp_authenticate_user \o sftp_list
        \o <<TryRelease("libssh2_sftp_shutdown", "sftp")>> \o Epilogue

(* The copy goes on without a file to write to, and ends the same way at the *)
(* end of the file and at an error.                                          *)
Copy ==
  <<GetOrGoOn("fopen", {}, "file"),
    Get("libssh2_sftp_open", {"sftp"}, "handle"),
    OnError(OrTo(Call("libssh2_sftp_read", {"handle"}), 2), 2),
    [Call("fwrite", {"file"}) EXCEPT !.ok = {-1}, !.err = {-1}],
    IfHeld(Release("fclose", "file"), "file"),
    Release("libssh2_sftp_close", "handle")>>

sftp_get == Prologue \o sftp_authenticate_user \o sftp_list \o Copy
            \o <<TryRelease("libssh2_sftp_shutdown", "sftp")>> \o Epilogue

SshTools == [authlist |-> authlist, exec |-> exec, exec_rsa |-> exec_rsa,
             sftp |-> sftp, sftp_get |-> sftp_get]

(* What main() of these tools does not test. *)
SshCareless ==
  {<<p, c>> : p \in DOMAIN SshTools, c \in {"malloc username", "memcpy username", "free username", "strncmp"}}
  \cup {<<p, "fprintf">> : p \in {"sftp", "sftp_get"}}
  \cup {<<"sftp_get", "fwrite">>}
=============================================================================
