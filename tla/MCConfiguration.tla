-------------------------- MODULE MCConfiguration --------------------------
EXTENDS Configuration, TLC

Allowed == "http_idle_conn_timeout_seconds" :> {10, 90}
           @@ "streaming_log_body_retention_days" :> {1, 2}

Defaults == "http_idle_conn_timeout_seconds" :> 90
            @@ "streaming_log_body_retention_days" :> 2

Others == [Defaults EXCEPT !["streaming_log_body_retention_days"] = 1]

InOrder == <<"streaming_log_body_retention_days">>

AtStart == {Defaults, Others}

SomeBodies ==
    { "http_idle_conn_timeout_seconds" :> 10,
      "http_idle_conn_timeout_seconds" :> 90 @@ "streaming_log_body_retention_days" :> 1,
      "streaming_log_body_retention_days" :> 2,
      "streaming_log_body_retention_days" :> 0 }
=============================================================================
