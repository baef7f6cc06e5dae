---------------------------- MODULE CryptoScripts ----------------------------
(***************************************************************************)
(* The exercises with libcrypto (pus-09) as sequences of calls.  A context *)
(* is allocated with malloc() ("ctx"), set up ("blank"), keyed ("key") and *)
(* cleaned up before it may be keyed again; the error strings ("errors")   *)
(* are loaded before the first call that may fail.                         *)
(***************************************************************************)
EXTENDS CallSequence

LoadErrors == <<[Call("ERR_load_crypto_strings", {}) EXCEPT !.gives = {"errors"}]>>
FreeErrors == <<Release("ERR_free_strings", "errors")>>

(* malloc() is not tested; the set-up writes to what it returned. *)
Context ==
  <<GetOrGoOn("malloc", {}, "ctx"),
    [Call("CTX_init", {"ctx"}) EXCEPT !.gives = {"blank"}]>>

(* The padding is set after Init, which the comment there insists on. *)
Pass(init, update, final) ==
  <<Get(init, {"blank"}, "key"),
    Call("EVP_CIPHER_CTX_set_padding", {"key"}),
    Try(update, {"key"}),
    Try(final, {"key"}),
    Release("CTX_cleanup", "key")>>

Encrypt == Pass("EVP_EncryptInit_ex", "EVP_EncryptUpdate", "EVP_EncryptFinal_ex")

(* There and back with the same context; ecb differs in the mode only. *)
cipher_cbc ==
  <<Try("argc", {})>> \o LoadErrors \o Context
  \o Encrypt
  \o Pass("EVP_DecryptInit_ex", "EVP_DecryptUpdate", "EVP_DecryptFinal_ex")
  \o <<IfHeld(Release("free", "ctx"), "ctx")>> \o FreeErrors

cipher_ecb == cipher_cbc

(* The digest by its name, then one line of input. *)
digest ==
  <<Try("argc", {})>> \o LoadErrors
  \o <<Get("EVP_get_digestbyname", {}, "md"), Try("fgets", {})>> \o Context
  \o <<Get("Init", {"blank", "md"}, "key"), Try("Update", {"key"}), Try("Final", {"key"}),
       Release("CTX_cleanup", "key"), Release("EVP_cleanup", "md"),
       IfHeld(Release("free", "ctx"), "ctx")>> \o FreeErrors

mac == digest

(* A write that fails is taken as done when the chain asks to be tried again. *)
cipher_bio ==
  LoadErrors
  \o <<Try("fgets", {}),
       GetOrGoOn("BIO_new cipher", {}, "bio"),
       Call("BIO_set_cipher", {"bio"}),
       GetOrGoOn("BIO_new base64", {}, "base64"),
       GetOrGoOn("BIO_new_fp", {}, "out"),
       Call("BIO_push", {"bio", "base64", "out"}),
       [Try("BIO_write", {"bio"}) EXCEPT !.err = {1}],
       Try("BIO_flush", {"bio"}),
       Release("BIO_free_all", "bio")>> \o FreeErrors

(* Both files are written from the one pair, the first is closed first. *)
WriteKey ==
  <<Get("fopen", {}, "file"), Try("PEM_write", {"file", "pair"}), Release("fclose", "file")>>

rsa ==
  LoadErrors
  \o <<Get("RSA_generate_key", {}, "pair"), Try("RSA_check_key", {"pair"})>>
  \o WriteKey \o WriteKey
  \o <<Release("RSA_free", "pair")>> \o FreeErrors

(* client.c and server.c: hmac() tests nothing and goes on whatever fails,  *)
(* with no digest, with a context that has no key, without a result; `use`  *)
(* is where it reads the result.  Its context is not freed.                 *)
hmac(use) ==
  <<GetOrGoOn("malloc hmac", {}, "hctx")>> \o LoadErrors
  \o <<GetOrGoOn("EVP_get_digestbyname", {}, "md"),
       [Call("HMAC_CTX_init", {"hctx"}) EXCEPT !.gives = {"hblank"}],
       GetOrGoOn("HMAC_Init", {"hblank", "md"}, "hkey"),
       [Call("HMAC_Update", {"hkey"}) EXCEPT !.err = {1}],
       GetOrGoOn("HMAC_Final", {"hkey"}, "mac"),
       Call(use, {"mac"}),
       [Call("HMAC_CTX_cleanup", {"hblank"}) EXCEPT !.frees = {"hkey"}]>>
  \o FreeErrors \o <<[Call("EVP_cleanup", {}) EXCEPT !.frees = {"md"}]>>

encrypt_cipher == LoadErrors \o Context \o Encrypt \o FreeErrors

(* The terminator goes behind the last block before the result is looked at, *)
(* and where that is comes from a call that may have failed.                 *)
decrypt_cipher ==
  LoadErrors \o Context
  \o <<Get("EVP_DecryptInit_ex", {"blank"}, "key"),
       Call("EVP_CIPHER_CTX_set_padding", {"key"}),
       Try("EVP_DecryptUpdate", {"key"}),
       GetOrGoOn("EVP_DecryptFinal_ex", {"key"}, "tail"),
       Try("terminate", {"tail"}),
       Release("CTX_cleanup", "key")>> \o FreeErrors

(* What is copied from is set to 0 first; the length that is printed is not. *)
crypto_client ==
  <<Try("argc", {}), Get("socket", {}, "socket"), Try("inet_pton", {})>>
  \o hmac("print_hex") \o encrypt_cipher
  \o <<Try("sendto", {"socket"}), Release("close", "socket")>>

(* Here what is copied from is an array nothing was written to. *)
crypto_server ==
  <<Try("argc", {}), Get("socket", {}, "socket"), Try("bind", {"socket"}),
    Try("recvfrom", {"socket"})>>
  \o decrypt_cipher \o hmac("memcpy") \o <<Release("close", "socket")>>

(* The key file is opened first, read when it is needed, closed at once. *)
client_rsa ==
  <<Try("argc", {}), Get("fopen", {}, "file"), Get("socket", {}, "socket"), Try("inet_pton", {})>>
  \o LoadErrors
  \o <<Get("PEM_read_RSAPrivateKey", {"file"}, "pair"), Release("fclose", "file"),
       Get("RSA_sign", {"pair"}, "signature"), Release("RSA_free", "pair")>> \o FreeErrors
  \o <<Try("sendto", {"socket", "signature"}), Release("close", "socket")>>

server_rsa ==
  <<Try("argc", {}), Get("fopen", {}, "file"), Get("socket", {}, "socket"), Try("bind", {"socket"}),
    Try("recvfrom", {"socket"})>>
  \o LoadErrors
  \o <<Get("PEM_read_RSAPublicKey", {"file"}, "pair"), Release("fclose", "file"),
       Get("RSA_verify", {"pair"}, "verified"), Release("RSA_free", "pair")>> \o FreeErrors
  \o <<Call("fwrite", {"verified"}), Release("close", "socket")>>

CryptoPrograms ==
  [cipher_cbc |-> cipher_cbc, cipher_ecb |-> cipher_ecb, digest |-> digest, mac |-> mac,
   cipher_bio |-> cipher_bio, rsa |-> rsa, crypto_client |-> crypto_client,
   crypto_server |-> crypto_server, client_rsa |-> client_rsa, server_rsa |-> server_rsa]

(* What these programs do not test: every allocation, whatever hmac() calls, *)
(* and the position of the terminator when the last block does not decrypt.  *)
CryptoCareless ==
  {<<p, "CTX_init">> : p \in DOMAIN CryptoPrograms}
  \cup {"crypto_client", "crypto_server"}
         \X {"HMAC_CTX_init", "HMAC_Init", "HMAC_Update", "HMAC_Final"}
  \cup {<<"crypto_client", "print_hex">>, <<"crypto_server", "memcpy">>}
  \cup {<<"cipher_bio", c>> : c \in {"BIO_set_cipher", "BIO_push", "BIO_write", "BIO_flush", "BIO_free_all"}}
  \cup {<<"crypto_server", "terminate">>}
=============================================================================
