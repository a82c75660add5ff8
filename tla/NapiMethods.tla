----------------------------- MODULE NapiMethods -----------------------------
(***************************************************************************)
(* What the methods of packages/wasmkernel/src/napi_runtime.js answer.  A  *)
(* row says which arguments a method wants not to be NULL, what else it    *)
(* refuses, and what becomes of an exception of the JavaScript it runs: a  *)
(* getter, a proxy or a conversion may run some.  What it computes, and    *)
(* where in the guest's memory it puts it, is left out.  Pointers other    *)
(* than NULL are taken to be good.                                         *)
(*                                                                         *)
(* Methods that NapiAsync or NapiHandles have an action for are here too,  *)
(* for their status.                                                       *)
(***************************************************************************)

\* An exception leaves the method, which catches it or leaves that to
\* dispatch; is dropped; or none can occur.  Some methods only raise one.
Row(method, needs, refuses, throws) ==
  [method |-> method, needs |-> needs, refuses |-> refuses, throws |-> throws]
Rows(methods, needs, refuses, throws) ==
  {Row(m, needs, refuses, throws) : m \in methods}
Infallible(methods) == Rows(methods, {}, {}, "never")
Checked(methods, needs) == Rows(methods, needs, {}, "never")
Raising(methods) == Rows(methods, {}, {}, "raises")

-----------------------------------------------------------------------------
(* The table, in the order of the source.                                  *)

Basics ==
  Checked({"napi_create_object", "napi_get_undefined", "napi_get_global"},
          {"result"})
  \cup Checked({"napi_create_string_utf8"}, {"result", "string"})
  \cup Rows({"napi_get_value_string_utf8"}, {"value", "buffer"},
            {"napi_string_expected"}, "never")
  \cup Rows({"napi_set_named_property", "napi_set_property"},
            {"object", "key", "value"}, {}, "pending")
  \cup Rows({"napi_get_named_property", "napi_get_property"},
            {"object", "key", "result"}, {}, "pending")
  \cup Rows({"napi_typeof"}, {"value"}, {}, "pending")

Functions ==
  Checked({"napi_create_function"}, {"callback", "result"})
  \cup Rows({"napi_call_function"}, {}, {}, "pending")
  \cup Checked({"napi_create_array_with_length"}, {"result"})
  \cup Rows({"napi_is_array", "napi_get_array_length", "napi_get_element"},
            {}, {}, "pending")
  \cup Rows({"napi_set_element"}, {"object"}, {}, "pending")

References ==
  Rows({"napi_create_reference"}, {"result"}, {"napi_invalid_arg"}, "never")
  \cup Infallible({"napi_get_reference_value", "napi_reference_unref",
                   "napi_delete_reference"})

Classes == Rows({"napi_define_class"},
                {"name", "callback", "properties", "result"}, {}, "pending")

CallbackInfo ==
  Rows({"napi_get_cb_info"}, {}, {"napi_generic_failure"}, "never")
  \cup Rows({"napi_get_value_bool"}, {"value", "result"},
            {"napi_boolean_expected"}, "never")
  \cup Checked({"napi_create_int64"}, {"result"})
  \cup Rows({"napi_coerce_to_string", "napi_coerce_to_object"},
            {"value", "result"}, {}, "pending")

Wraps ==
  Rows({"napi_wrap"}, {}, {"napi_invalid_arg"}, "never")
  \cup Rows({"napi_unwrap"}, {"object", "result"}, {"napi_invalid_arg"}, "never")

Errors ==
  Raising({"napi_throw_error", "napi_throw"})
  \cup Rows({"napi_create_error"}, {"result"}, {}, "pending")
  \cup Rows({"napi_is_error"}, {}, {}, "pending")
  \cup Infallible({"napi_is_exception_pending"})

ErrorInfo ==
  Infallible({"napi_unref_threadsafe_function"})
  \cup Checked({"napi_get_last_error_info"}, {"result"})

Numbers ==
  Rows({"napi_get_value_int32", "napi_get_value_uint32",
        "napi_get_value_int64", "napi_get_value_double"},
       {"value", "result"}, {"napi_number_expected"}, "never")
  \cup Checked({"napi_create_int32", "napi_create_uint32", "napi_create_double"},
               {"result"})

Comparisons ==
  Rows({"napi_has_named_property", "napi_has_property"},
       {"object", "key", "result"}, {}, "pending")
  \cup Infallible({"napi_strict_equals"})
  \cup Checked({"napi_get_null", "napi_get_boolean"}, {"result"})
  \cup Checked({"napi_create_string_latin1"}, {"result", "string"})

SyntaxErrors ==
  Raising({"napi_throw_syntax_error", "node_api_throw_syntax_error"})
  \cup Rows({"napi_create_syntax_error", "node_api_create_syntax_error",
             "node_api_set_prototype"}, {}, {}, "pending")
  \cup Checked({"node_api_symbol_for"}, {"result", "string"})

Buffers ==
  Checked({"napi_create_buffer"}, {"result"})
  \cup Rows({"node_api_create_sharedarraybuffer"}, {"result"}, {}, "pending")
  \cup Infallible({"napi_create_buffer_copy", "napi_create_external_buffer"})
  \cup Rows({"napi_get_buffer_info"}, {}, {"napi_invalid_arg"}, "pending")
  \cup Rows({"napi_is_buffer", "node_api_create_buffer_from_arraybuffer"},
            {}, {}, "pending")

\* napi_fatal_exception throws what it is given from a tick of its own.
Hooks == Infallible({"napi_add_env_cleanup_hook", "napi_remove_env_cleanup_hook",
                     "napi_fatal_exception", "node_api_get_module_file_name"})

ExternalStrings ==
  Infallible({"node_api_create_external_string_latin1",
              "node_api_create_external_string_utf16", "node_api_post_finalizer",
              "init_test_null"})
  \cup Checked({"node_api_create_property_key_latin1",
                "node_api_create_property_key_utf8",
                "node_api_create_property_key_utf16"}, {"result", "string"})
  \cup Rows({"node_api_create_object_with_properties"}, {"result"}, {}, "pending")
  \cup Rows({"node_api_is_sharedarraybuffer"}, {}, {}, "pending")

ExternalBuffers ==
  Rows({"napi_create_external_arraybuffer", "napi_detach_arraybuffer",
        "napi_get_dataview_info", "napi_is_detached_arraybuffer"},
       {}, {}, "pending")

WideStrings ==
  Rows({"napi_get_value_string_utf16", "napi_get_value_string_latin1"},
       {"value", "buffer"}, {"napi_string_expected"}, "never")
  \cup Checked({"napi_create_string_utf16"}, {"result", "string"})

BigIntWords ==
  Rows({"napi_check_object_type_tag", "napi_type_tag_object"}, {}, {}, "pending")
  \cup Infallible({"napi_get_value_bigint_words"})
  \cup Rows({"napi_create_bigint_words"}, {"result"}, {"napi_invalid_arg"},
            "pending")

Definitions ==
  Rows({"napi_define_properties"}, {"object", "properties"},
       {"napi_object_expected"}, "pending")
  \cup Rows({"napi_new_instance"}, {}, {}, "pending")

Coercions ==
  Checked({"napi_coerce_to_bool"}, {"value", "result"})
  \cup Rows({"napi_coerce_to_number"}, {"value", "result"}, {}, "pending")
  \cup Rows({"napi_create_type_error", "napi_create_range_error"}, {"result"}, {},
            "pending")
  \cup Raising({"napi_throw_type_error", "napi_throw_range_error"})

Elements ==
  Checked({"napi_create_array", "napi_create_external"}, {"result"})
  \cup Rows({"napi_has_element"}, {"object", "result"}, {}, "pending")
  \cup Rows({"napi_delete_element"}, {"object"}, {}, "pending")
  \cup Rows({"napi_delete_property"}, {"object", "key"}, {}, "pending")
  \cup Rows({"napi_has_own_property"}, {"object", "key", "result"},
            {"napi_name_expected"}, "pending")
  \cup Rows({"napi_get_value_external"}, {}, {}, "pending")

Prototypes ==
  Rows({"napi_instanceof"}, {"object", "constructor"}, {}, "dropped")
  \cup Rows({"napi_get_prototype", "napi_get_property_names",
             "napi_get_all_property_names"}, {"object", "result"}, {}, "pending")
  \cup Rows({"napi_create_symbol"}, {"result"}, {}, "pending")
  \cup Infallible({"napi_get_version", "napi_get_new_target"})

Promises ==
  Checked({"napi_create_promise"}, {"deferred"})
  \cup Infallible({"napi_resolve_deferred", "napi_reject_deferred"})
  \cup Rows({"napi_is_promise", "napi_object_freeze", "napi_object_seal"},
            {}, {}, "pending")

Scopes ==
  Rows({"napi_remove_wrap"}, {"object"}, {"napi_invalid_arg"}, "never")
  \cup Infallible({"napi_reference_ref", "napi_close_handle_scope",
                   "napi_open_escapable_handle_scope",
                   "napi_close_escapable_handle_scope"})
  \cup Rows({"napi_escape_handle"}, {}, {"napi_escape_called_twice"}, "never")

Dates ==
  Checked({"napi_create_date", "napi_get_node_version"}, {"result"})
  \cup Rows({"napi_is_date", "napi_get_date_value"}, {}, {}, "pending")
  \cup Infallible({"napi_set_instance_data", "napi_get_instance_data",
                   "napi_add_finalizer"})

AsyncWork ==
  Infallible({"napi_create_async_work", "napi_delete_async_work",
              "napi_async_init", "napi_async_destroy"})
  \cup Rows({"napi_queue_async_work", "napi_cancel_async_work"}, {},
            {"napi_generic_failure"}, "never")
  \cup Rows({"napi_make_callback"}, {}, {}, "pending")

ThreadsafeFunctions ==
  Infallible({"napi_create_threadsafe_function",
              "napi_get_threadsafe_function_context"})
  \cup Rows({"napi_acquire_threadsafe_function"}, {}, {"napi_closing"}, "never")
  \cup Rows({"napi_call_threadsafe_function"}, {},
            {"napi_generic_failure", "napi_closing"}, "never")
  \cup Rows({"napi_release_threadsafe_function"}, {}, {"napi_generic_failure"},
            "never")

Scripts ==
  Infallible({"napi_add_async_cleanup_hook", "napi_remove_async_cleanup_hook",
              "napi_get_uv_event_loop", "napi_fatal_error",
              "napi_adjust_external_memory"})
  \cup Rows({"napi_run_script"}, {"script", "result"}, {"napi_string_expected"},
            "pending")

Views ==
  Rows({"napi_create_arraybuffer", "napi_create_typedarray",
        "napi_create_dataview"}, {"result"}, {}, "pending")
  \cup Rows({"napi_is_arraybuffer", "napi_get_typedarray_info",
             "napi_is_typedarray", "napi_is_dataview"}, {}, {}, "pending")
  \cup Rows({"napi_get_arraybuffer_info"}, {}, {"napi_invalid_arg"}, "pending")

BigInts ==
  Checked({"napi_create_bigint_int64", "napi_create_bigint_uint64"}, {"result"})
  \cup Infallible({"napi_get_value_bigint_int64", "napi_get_value_bigint_uint64"})

Table ==
  Basics \cup Functions \cup References \cup Classes \cup CallbackInfo
  \cup Wraps \cup Errors \cup ErrorInfo \cup Numbers \cup Comparisons
  \cup SyntaxErrors \cup Buffers \cup Hooks \cup ExternalStrings
  \cup ExternalBuffers \cup WideStrings \cup BigIntWords \cup Definitions
  \cup Coercions \cup Elements \cup Prototypes \cup Promises \cup Scopes
  \cup Dates \cup AsyncWork \cup ThreadsafeFunctions \cup Scripts \cup Views
  \cup BigInts

-----------------------------------------------------------------------------
(* Their outcomes.                                                         *)

Outcome(status, raised) == [status |-> status, raised |-> raised]

OutcomesOf(row) ==
  LET refusals == row.refuses
                  \cup (IF row.needs = {} THEN {} ELSE {"napi_invalid_arg"})
  IN {Outcome(s, FALSE) : s \in refusals}
     \cup {Outcome("napi_ok", row.throws = "raises")}
     \cup (IF row.throws = "pending"
           THEN {Outcome("napi_pending_exception", TRUE)} ELSE {})
=============================================================================
